---- MODULE Spec2Model ----
(***************************************************************************)
(* Model of scripts/document_structurer.py (parsers, process_file, the     *)
(* KnowledgeGraph, the OutputManager writers and main) and of the          *)
(* relational-store consumer scripts/insights_report.py.                   *)
(*                                                                         *)
(* Python str values are TLA+ strings; Len, \o and SubSeq work on them.    *)
(* Python None is the string None below (for optional str fields) and 0    *)
(* for the optional 1-based line and col.                                  *)
(***************************************************************************)
EXTENDS Integers, Sequences, FiniteSets, TLC

VARIABLES
    HAS_YAML,       \* module flag set by the import at lines 33-39
    HAS_HCL,        \* module flag set by the import at lines 41-45
    HAS_NETWORKX,   \* module flag set by the import at lines 53-57
    fs,             \* the file system under root: what is there and what fails
    args,           \* the parsed command line
    pc,             \* position of main
    all_files,      \* sequence of relative paths found by the scan
    futures,        \* path -> state of its future: pending, running, done
    results,        \* path -> what the finished future holds
    workers,        \* pool process -> the path it is running, or Idle
    yielded,        \* futures as_completed has already handed to main
    cur,            \* the Document main is about to merge
    processed,      \* main's counter of merged documents
    kg,             \* the KnowledgeGraph
    written,        \* output artifacts written so far in this run
    notices,        \* notices printed by writers that skipped themselves
    db,             \* documents.db: the three tables
    kgAtOutput,     \* history: the KnowledgeGraph when the output stage began
    calls,          \* history: number of API calls made (library use)
    lastDoc,        \* history: the Document of the latest add_document call
    kgBefore,       \* history: the KnowledgeGraph before the latest call
    related,        \* the latest get_related_documents call and its result
    parsed,         \* the latest get_parser or process_file call and its result
    similar,        \* the latest find_similar_tokens call and its result
    insights,       \* what the reporting tool last computed from documents.db
    gen,            \* the AudioGenerator: its arguments, loop position and results
    cloud,          \* the ElevenLabs account: its credits and the calls made to it
    disk,           \* the audio and results files that exist
    post            \* the latest post_process_audio call and what it did

vars == <<HAS_YAML, HAS_HCL, HAS_NETWORKX, fs, args, pc, all_files, futures,
          results, workers, yielded, cur, processed, kg, written, notices, db,
          kgAtOutput, calls, lastDoc, kgBefore, related, parsed, similar,
          insights, gen, cloud, disk, post>>

None == "<None>"
Idle == "<idle>"

(***************************************************************************)
(* Bounds of the model.                                                    *)
(***************************************************************************)
MaxWorkers == 2      \* size of the worker pool (--workers)
MaxFailures == 1     \* files of one run whose read or stat fails
MaxCalls == 3        \* API calls on one KnowledgeGraph in library use
MaxDepth == 2        \* largest max_depth passed to get_related_documents
RecursionLimit == 4  \* nested calls the interpreter allows (sys.getrecursionlimit)
MaxRuns == 2         \* runs of main that write into the same output directory

(***************************************************************************)
(* String helpers: str.startswith, `in`, str.strip, str.lower.             *)
(***************************************************************************)
StartsWith(s, prefix) ==
    /\ Len(prefix) <= Len(s)
    /\ SubSeq(s, 1, Len(prefix)) = prefix

Contains(s, pat) ==
    \E i \in 1..(Len(s) - Len(pat) + 1) : SubSeq(s, i, i + Len(pat) - 1) = pat

IsSpace(c) == c \in {" ", "\t", "\n", "\r"}

RECURSIVE LStrip(_)
LStrip(s) ==
    IF Len(s) > 0 /\ IsSpace(SubSeq(s, 1, 1))
    THEN LStrip(SubSeq(s, 2, Len(s)))
    ELSE s

RECURSIVE RStrip(_)
RStrip(s) ==
    IF Len(s) > 0 /\ IsSpace(SubSeq(s, Len(s), Len(s)))
    THEN RStrip(SubSeq(s, 1, Len(s) - 1))
    ELSE s

Strip(s) == RStrip(LStrip(s))

Upper == "ABCDEFGHIJKLMNOPQRSTUVWXYZ"
LowerAlphabet == "abcdefghijklmnopqrstuvwxyz"

LowerChar(c) ==
    IF \E i \in 1..Len(Upper) : SubSeq(Upper, i, i) = c
    THEN LET i == CHOOSE j \in 1..Len(Upper) : SubSeq(Upper, j, j) = c
         IN  SubSeq(LowerAlphabet, i, i)
    ELSE c

RECURSIVE Lower(_)
Lower(s) ==
    IF Len(s) = 0 THEN ""
    ELSE LowerChar(SubSeq(s, 1, 1)) \o Lower(SubSeq(s, 2, Len(s)))

RECURSIVE Repeat(_, _)
Repeat(c, n) == IF n = 0 THEN "" ELSE c \o Repeat(c, n - 1)

RECURSIVE Join(_, _)
Join(sep, parts) ==
    IF Len(parts) = 0 THEN ""
    ELSE IF Len(parts) = 1 THEN parts[1]
    ELSE parts[1] \o sep \o Join(sep, Tail(parts))

\* pathlib: Path.name and Path.suffix of a relative path
LastIndexOf(s, c) ==
    LET hits == {i \in 1..Len(s) : SubSeq(s, i, i) = c}
    IN  IF hits = {} THEN 0 ELSE CHOOSE i \in hits : \A j \in hits : j <= i

PathName(p) == SubSeq(p, LastIndexOf(p, "/") + 1, Len(p))

PathSuffix(p) ==
    LET name == PathName(p)
        i == LastIndexOf(name, ".")
    IN  IF i > 1 /\ i < Len(name) THEN SubSeq(name, i, Len(name)) ELSE ""

(***************************************************************************)
(* Token and BaseParser.create_token.                                      *)
(***************************************************************************)
create_token(filepath, token_type, value, raw, line, col, context) ==
    [token_type |-> token_type, value |-> value, raw |-> raw,
     file |-> filepath, line |-> line, col |-> col, context |-> context]

(***************************************************************************)
(* File contents.  A Markdown file is written as the sequence of its       *)
(* constructs, which MdRender turns into the text the parser reads; a      *)
(* Dockerfile is the sequence of its directive lines, a JSON file the      *)
(* value json.loads gives (or invalid), a plain text file its text.        *)
(***************************************************************************)
MdHeader(level, text) == [el |-> "header", level |-> level, text |-> text, target |-> ""]
MdCode(lang, body)    == [el |-> "code", level |-> 0, text |-> lang, target |-> body]
MdInline(code)        == [el |-> "inline", level |-> 0, text |-> code, target |-> ""]
MdLink(text, url)     == [el |-> "link", level |-> 0, text |-> text, target |-> url]
MdUrl(url)            == [el |-> "url", level |-> 0, text |-> "", target |-> url]
MdItem(text)          == [el |-> "item", level |-> 0, text |-> text, target |-> ""]

DfLine(directive, name, rest) == [d |-> directive, a |-> name, rest |-> rest]
DfText(l) == l.d \o " " \o l.a \o (IF l.rest = "" THEN "" ELSE "=" \o l.rest)

JStr(s)      == [t |-> "str", s |-> s, items |-> <<>>]
JNum         == [t |-> "num", s |-> "", items |-> <<>>]
JDict(items) == [t |-> "dict", s |-> "", items |-> items]
JList(items) == [t |-> "list", s |-> "", items |-> items]
JItem(k, v)  == [k |-> k, v |-> v]
JAlias       == [t |-> "alias", s |-> "", items |-> <<>>]

(***************************************************************************)
(* Regular-expression matching on the text of a file.  A pattern is the    *)
(* operator that gives, for a start index, the index of the last character *)
(* of the match that starts there, or 0 when none does; finditer scans     *)
(* the text from left to right and resumes after each match.               *)
(***************************************************************************)
Digits == "0123456789"
WordChars == Upper \o LowerAlphabet \o Digits \o "_"

At(s, i) == IF i >= 1 /\ i <= Len(s) THEN SubSeq(s, i, i) ELSE ""

CharIn(c, chars) == \E i \in 1..Len(chars) : SubSeq(chars, i, i) = c

StartsWithAt(s, i, prefix) ==
    /\ i + Len(prefix) - 1 <= Len(s)
    /\ SubSeq(s, i, i + Len(prefix) - 1) = prefix

\* the last index of the longest run of characters of chars that starts at i
RECURSIVE RunEnd(_, _, _)
RunEnd(s, i, chars) ==
    IF CharIn(At(s, i), chars) THEN RunEnd(s, i + 1, chars) ELSE i - 1

RECURSIVE NonSpaceRunEnd(_, _)
NonSpaceRunEnd(s, i) ==
    IF i <= Len(s) /\ ~IsSpace(At(s, i)) THEN NonSpaceRunEnd(s, i + 1) ELSE i - 1

\* TextParser.URL: a web scheme and one or more characters that are not spaces
TextParser_URL(s, i) ==
    LET k == IF StartsWithAt(s, i, "http://") THEN i + 7
             ELSE IF StartsWithAt(s, i, "https://") THEN i + 8 ELSE 0
        j == NonSpaceRunEnd(s, k)
    IN  IF k = 0 \/ j < k THEN 0 ELSE j

\* TextParser.PATH: one or more segments of a slash and name characters, and
\* an optional closing slash
TextParser_PATH_chars == WordChars \o ".-"

PathSegmentEnd(s, i) ==
    IF At(s, i) = "/" /\ CharIn(At(s, i + 1), TextParser_PATH_chars)
    THEN RunEnd(s, i + 1, TextParser_PATH_chars) ELSE 0

RECURSIVE PathSegmentsEnd(_, _)
PathSegmentsEnd(s, i) ==
    LET j == PathSegmentEnd(s, i)
    IN  IF j = 0 THEN i - 1 ELSE PathSegmentsEnd(s, j + 1)

TextParser_PATH(s, i) ==
    LET j == PathSegmentsEnd(s, i)
    IN  IF j < i THEN 0 ELSE IF At(s, j + 1) = "/" THEN j + 1 ELSE j

\* TextParser.TOKEN: three or more token characters between two word
\* boundaries; the longest such match wins
TextParser_TOKEN_chars == WordChars \o "-./:"

WordBoundary(s, i) == CharIn(At(s, i - 1), WordChars) # CharIn(At(s, i), WordChars)

TextParser_TOKEN(s, i) ==
    LET r == RunEnd(s, i, TextParser_TOKEN_chars)
        ends == {j \in (i + 2)..r : WordBoundary(s, j + 1)}
    IN  IF ~WordBoundary(s, i) \/ ends = {} THEN 0
        ELSE CHOOSE j \in ends : \A k \in ends : k <= j

\* HCLParser._fallback_parse QUOTED: a double quote up to the next one
HCLParser_QUOTED(s, i) ==
    LET closing == {j \in (i + 1)..Len(s) : At(s, j) = "\""}
    IN  IF At(s, i) # "\"" \/ closing = {} THEN 0
        ELSE CHOOSE j \in closing : \A k \in closing : j <= k

\* MarkdownParser.URL: as TextParser.URL, and a closing parenthesis ends it
RECURSIVE UrlRunEnd(_, _)
UrlRunEnd(s, i) ==
    IF i <= Len(s) /\ ~IsSpace(At(s, i)) /\ At(s, i) # ")"
    THEN UrlRunEnd(s, i + 1) ELSE i - 1

MarkdownParser_URL(s, i) ==
    LET k == IF StartsWithAt(s, i, "http://") THEN i + 7
             ELSE IF StartsWithAt(s, i, "https://") THEN i + 8 ELSE 0
        j == UrlRunEnd(s, k)
    IN  IF k = 0 \/ j < k THEN 0 ELSE j

\* the last index of the longest run of characters other than c that
\* starts at i
RECURSIVE UntilChar(_, _, _)
UntilChar(s, i, c) ==
    IF i <= Len(s) /\ At(s, i) # c THEN UntilChar(s, i + 1, c) ELSE i - 1

\* the backquote character, which a TLA+ string cannot hold
BackQuote == "'"
Fence == BackQuote \o BackQuote \o BackQuote

Whitespace == " \t\n\r"

\* ^ under re.MULTILINE
LineStart(s, i) == i = 1 \/ At(s, i - 1) = "\n"

\* \s+(.+)$ from index k: the whitespace run is as long as it can be while a
\* character other than a newline follows it (the run gives characters back
\* when none does), and the text runs to the end of its line
TextToLineEnd(s, k) ==
    LET w == RunEnd(s, k, Whitespace)
        starts == {j \in (k + 1)..(w + 1) : j <= Len(s) /\ At(s, j) # "\n"}
    IN  IF starts = {} THEN 0
        ELSE UntilChar(s, CHOOSE j \in starts : \A x \in starts : x <= j, "\n")

\* MarkdownParser.HEADER: one to six hashes at the start of a line, white
\* space (which may hold newlines), text
MarkdownParser_HEADER(s, i) ==
    LET n == RunEnd(s, i, "#") - i + 1
    IN  IF LineStart(s, i) /\ n >= 1 /\ n <= 6 THEN TextToLineEnd(s, i + n) ELSE 0

\* MarkdownParser.CODE_BLOCK: a fence, word characters, a newline, and
\* everything up to the next fence
MarkdownParser_CODE_BLOCK(s, i) ==
    LET l == RunEnd(s, i + 3, WordChars)
        closing == {j \in (l + 2)..Len(s) : StartsWithAt(s, j, Fence)}
    IN  IF StartsWithAt(s, i, Fence) /\ At(s, l + 1) = "\n" /\ closing # {}
        THEN (CHOOSE j \in closing : \A x \in closing : j <= x) + 2
        ELSE 0

\* MarkdownParser.INLINE_CODE: a backquote, one or more other characters, a
\* backquote
MarkdownParser_INLINE_CODE(s, i) ==
    LET r == UntilChar(s, i + 1, BackQuote)
    IN  IF At(s, i) = BackQuote /\ r >= i + 1 /\ At(s, r + 1) = BackQuote
        THEN r + 1 ELSE 0

\* MarkdownParser.LINK: [text](url), neither part empty
MarkdownParser_LINK(s, i) ==
    LET a == UntilChar(s, i + 1, "]")
        b == UntilChar(s, a + 3, ")")
    IN  IF /\ At(s, i) = "[" /\ a >= i + 1
           /\ At(s, a + 1) = "]" /\ At(s, a + 2) = "("
           /\ b >= a + 3 /\ At(s, b + 1) = ")"
        THEN b + 1 ELSE 0

\* MarkdownParser.LIST_ITEM: at the start of a line, optional white space, a
\* marker, white space, text
MarkdownParser_LIST_ITEM(s, i) ==
    LET a == RunEnd(s, i, Whitespace)
    IN  IF LineStart(s, i) /\ CharIn(At(s, a + 1), "-*+")
        THEN TextToLineEnd(s, a + 2) ELSE 0

MatchEnd(pattern, s, i) ==
    CASE pattern = "URL" -> TextParser_URL(s, i)
      [] pattern = "MD_URL" -> MarkdownParser_URL(s, i)
      [] pattern = "HEADER" -> MarkdownParser_HEADER(s, i)
      [] pattern = "CODE_BLOCK" -> MarkdownParser_CODE_BLOCK(s, i)
      [] pattern = "INLINE_CODE" -> MarkdownParser_INLINE_CODE(s, i)
      [] pattern = "LINK" -> MarkdownParser_LINK(s, i)
      [] pattern = "LIST_ITEM" -> MarkdownParser_LIST_ITEM(s, i)
      [] pattern = "PATH" -> TextParser_PATH(s, i)
      [] pattern = "TOKEN" -> TextParser_TOKEN(s, i)
      [] pattern = "QUOTED" -> HCLParser_QUOTED(s, i)

\* the matches of a pattern: where each starts (m.start() + 1) and its text
RECURSIVE finditer(_, _, _)
finditer(pattern, s, i) ==
    IF i > Len(s) THEN <<>>
    ELSE LET j == MatchEnd(pattern, s, i)
         IN  IF j = 0 THEN finditer(pattern, s, i + 1)
             ELSE <<[start |-> i, group |-> SubSeq(s, i, j)]>>
                  \o finditer(pattern, s, j + 1)

\* str.splitlines
RECURSIVE splitlines(_)
splitlines(s) ==
    LET breaks == {i \in 1..Len(s) : At(s, i) = "\n"}
    IN  IF Len(s) = 0 THEN <<>>
        ELSE IF breaks = {} THEN <<s>>
        ELSE LET k == CHOOSE i \in breaks : \A j \in breaks : i <= j
             IN  <<SubSeq(s, 1, k - 1)>> \o splitlines(SubSeq(s, k + 1, Len(s)))

(***************************************************************************)
(* MarkdownParser.parse: six passes, each a finditer loop over the whole   *)
(* content.  The groups of a match are read off the matched text.          *)
(***************************************************************************)
IsWebUrl(s) == StartsWith(s, "http://") \/ StartsWith(s, "https://")

MdToken(pattern, fp, raw) ==
    CASE pattern = "HEADER" ->
            LET n == RunEnd(raw, 1, "#")
            IN  create_token(fp, "header", Strip(SubSeq(raw, n + 1, Len(raw))), raw,
                             0, 0, "level_" \o ToString(n))
      [] pattern = "CODE_BLOCK" ->
            LET l == RunEnd(raw, 4, WordChars)
                lang == SubSeq(raw, 4, l)
            IN  create_token(fp, "code_block",
                             Strip(SubSeq(raw, l + 2, Len(raw) - 3)), raw,
                             0, 0, IF lang = "" THEN "text" ELSE lang)
      [] pattern = "INLINE_CODE" ->
            create_token(fp, "inline_code", SubSeq(raw, 2, Len(raw) - 1), raw,
                         0, 0, None)
      [] pattern = "LINK" ->
            LET a == UntilChar(raw, 2, "]")
            IN  create_token(fp, "reference", SubSeq(raw, a + 3, Len(raw) - 1), raw,
                             0, 0, SubSeq(raw, 2, a))
      [] pattern = "MD_URL" -> create_token(fp, "url", raw, raw, 0, 0, None)
      [] pattern = "LIST_ITEM" ->
            LET a == RunEnd(raw, 1, Whitespace)
            IN  create_token(fp, "list_item", Strip(SubSeq(raw, a + 2, Len(raw))),
                             raw, 0, 0, None)

\* one finditer loop: the tokens of one pattern, in document order
MdPass(pattern, fp, text) ==
    LET matches == finditer(pattern, text, 1)
    IN  [k \in 1..Len(matches) |-> MdToken(pattern, fp, matches[k].group)]

\* a Markdown file is written as the sequence of its constructs, each on
\* lines of its own
MdText(e) ==
    CASE e.el = "header" -> Repeat("#", e.level) \o " " \o e.text
      [] e.el = "code" -> Fence \o e.text \o "\n" \o e.target \o Fence
      [] e.el = "inline" -> BackQuote \o e.text \o BackQuote
      [] e.el = "link" -> "[" \o e.text \o "](" \o e.target \o ")"
      [] e.el = "url" -> e.target
      [] e.el = "item" -> "- " \o e.text

RECURSIVE MdRender(_)
MdRender(content) ==
    IF Len(content) = 0 THEN ""
    ELSE MdText(content[1]) \o "\n" \o MdRender(Tail(content))

MarkdownParser_parse(fp, content) ==
    LET text == MdRender(content)
    IN  MdPass("HEADER", fp, text)
        \o MdPass("CODE_BLOCK", fp, text)
        \o MdPass("INLINE_CODE", fp, text)
        \o MdPass("LINK", fp, text)
        \o MdPass("MD_URL", fp, text)
        \o MdPass("LIST_ITEM", fp, text)

(***************************************************************************)
(* JSONParser.parse and JSONParser._walk.                                  *)
(***************************************************************************)
RECURSIVE JSONParser_walk(_, _, _)
RECURSIVE JSONParser_walk_dict(_, _, _)
RECURSIVE JSONParser_walk_list(_, _, _, _)

\* a faulty variant, used to test the properties: the KEY token comes after
\* the tokens of its value
JSONParser_walk_dict_key_last(fp, items, path) ==
    IF Len(items) = 0 THEN <<>>
    ELSE JSONParser_walk(fp, items[1].v, Append(path, items[1].k))
         \o <<create_token(fp, "key", items[1].k, items[1].k, 0, 0, Join(".", path))>>
         \o JSONParser_walk_dict(fp, Tail(items), path)

JSONParser_walk(fp, obj, path) ==
    CASE obj.t = "str" ->
            <<create_token(fp, "value", obj.s, obj.s, 0, 0, Join(".", path))>>
      [] obj.t = "dict" -> JSONParser_walk_dict(fp, obj.items, path)
      [] obj.t = "list" -> JSONParser_walk_list(fp, obj.items, path, 0)
      [] OTHER -> <<>>

JSONParser_walk_dict(fp, items, path) ==
    IF Len(items) = 0 THEN <<>>
    ELSE <<create_token(fp, "key", items[1].k, items[1].k, 0, 0, Join(".", path))>>
         \o JSONParser_walk(fp, items[1].v, Append(path, items[1].k))
         \o JSONParser_walk_dict(fp, Tail(items), path)

JSONParser_walk_list(fp, items, path, idx) ==
    IF Len(items) = 0 THEN <<>>
    ELSE JSONParser_walk(fp, items[1], Append(path, "[" \o ToString(idx) \o "]"))
         \o JSONParser_walk_list(fp, Tail(items), path, idx + 1)

\* json.loads raising is caught: a warning and no tokens
JSONParser_parse(fp, content) ==
    IF content.valid THEN JSONParser_walk(fp, content.data, <<>>) ELSE <<>>

(***************************************************************************)
(* DockerfileParser.parse.  In ENV and ARG the whitespace pattern before   *)
(* the value group also matches a line break, so a directive with nothing  *)
(* after its name takes the following line as its value; the value group   *)
(* of ARG may be empty, that of ENV may not.                               *)
(***************************************************************************)
DfSpill(content, i) == IF i < Len(content) THEN DfText(content[i + 1]) ELSE ""

DfFromTokens(fp, content, i) ==
    IF content[i].d = "FROM"
    THEN <<create_token(fp, "reference", content[i].a,
                        "FROM " \o content[i].a, 0, 0, "base_image")>>
    ELSE <<>>

DfEnvTokens(fp, content, i) ==
    LET l == content[i]
        group2 == IF l.rest # "" THEN l.rest ELSE DfSpill(content, i)
        raw == IF l.rest # "" THEN DfText(l) ELSE DfText(l) \o "\n" \o group2
    IN  IF l.d = "ENV" /\ group2 # ""
        THEN <<create_token(fp, "assignment", Strip(group2), raw, 0, 0, l.a)>>
        ELSE <<>>

DfArgTokens(fp, content, i) ==
    LET l == content[i]
        group2 == IF l.rest # "" THEN l.rest ELSE DfSpill(content, i)
        value == IF group2 # "" THEN Strip(group2) ELSE ""
        raw == IF group2 = "" \/ l.rest # "" THEN DfText(l)
               ELSE DfText(l) \o "\n" \o group2
    IN  IF l.d = "ARG"
        THEN <<create_token(fp, "assignment", value, raw, 0, 0, "arg:" \o l.a)>>
        ELSE <<>>

\* the text from line i to the end of the file: the value group of LABEL runs
\* on to the next double quote, and the lines modelled hold none
RECURSIVE DfFrom(_, _)
DfFrom(content, i) ==
    IF i = Len(content) THEN DfText(content[i])
    ELSE DfText(content[i]) \o "\n" \o DfFrom(content, i + 1)

DfLabelTokens(fp, content, i) ==
    IF content[i].d = "LABEL"
    THEN <<create_token(fp, "key", content[i].a, DfFrom(content, i), 0, 0, "label")>>
    ELSE <<>>

\* one finditer loop: the tokens of one pattern, in file order
RECURSIVE DfPass(_, _, _, _)
DfPass(pattern, fp, content, i) ==
    IF i > Len(content) THEN <<>>
    ELSE (CASE pattern = "FROM" -> DfFromTokens(fp, content, i)
            [] pattern = "ENV" -> DfEnvTokens(fp, content, i)
            [] pattern = "ARG" -> DfArgTokens(fp, content, i)
            [] pattern = "LABEL" -> DfLabelTokens(fp, content, i))
         \o DfPass(pattern, fp, content, i + 1)

DockerfileParser_parse(fp, content) ==
    DfPass("FROM", fp, content, 1)
    \o DfPass("ENV", fp, content, 1)
    \o DfPass("ARG", fp, content, 1)
    \o DfPass("LABEL", fp, content, 1)

(***************************************************************************)
(* TextParser.parse: the URLs and the paths of the whole text, then the    *)
(* words of each line; a word is left out when its text occurs in the      *)
(* value of any token collected so far.                                    *)
(***************************************************************************)
TextMatchTokens(fp, token_type, matches) ==
    [k \in 1..Len(matches) |->
        create_token(fp, token_type, matches[k].group, matches[k].group, 0, 0, None)]

\* lines 425-432: the matches of one line
RECURSIVE TextWordsOfLine(_, _, _, _)
TextWordsOfLine(fp, tokens, matches, i) ==
    IF Len(matches) = 0 THEN tokens
    ELSE LET value == matches[1].group
             captured == \E k \in 1..Len(tokens) : Contains(tokens[k].value, value)
         IN  TextWordsOfLine(fp,
                IF captured THEN tokens
                ELSE Append(tokens, create_token(fp, "word", value, value,
                                                 i, matches[1].start, None)),
                Tail(matches), i)

\* line 424: the loop over self.lines
RECURSIVE TextWords(_, _, _, _)
TextWords(fp, tokens, lines, i) ==
    IF i > Len(lines) THEN tokens
    ELSE TextWords(fp, TextWordsOfLine(fp, tokens, finditer("TOKEN", lines[i], 1), i),
                   lines, i + 1)

TextParser_parse(fp, content) ==
    TextWords(fp,
              TextMatchTokens(fp, "url", finditer("URL", content, 1))
              \o TextMatchTokens(fp, "path", finditer("PATH", content, 1)),
              splitlines(content), 1)

(***************************************************************************)
(* YAMLParser.parse and YAMLParser._walk.  A YAML file is the value        *)
(* YAML.load gives (or invalid); an alias node stands for the anchored     *)
(* root mapping itself, so the value may contain itself.  _walk calls      *)
(* itself once for each level of nesting, and the interpreter raises       *)
(* RecursionError in the call that exceeds its limit; the exception ends   *)
(* the walk, and the tokens appended before it stay in the list.           *)
(***************************************************************************)
RecursionError ==
    [token_type |-> "<RecursionError>", value |-> "", raw |-> "", file |-> "",
     line |-> 0, col |-> 0, context |-> None]

Raises(tokens) == \E i \in 1..Len(tokens) : tokens[i] = RecursionError

RECURSIVE BeforeRaise(_)
BeforeRaise(tokens) ==
    IF Len(tokens) = 0 \/ tokens[1] = RecursionError THEN <<>>
    ELSE <<tokens[1]>> \o BeforeRaise(Tail(tokens))

RECURSIVE YAMLParser_walk(_, _, _, _, _)
RECURSIVE YAMLParser_walk_dict(_, _, _, _, _)
RECURSIVE YAMLParser_walk_list(_, _, _, _, _, _)

YAMLParser_walk(fp, root, node, path, depth) ==
    LET obj == IF node.t = "alias" THEN root ELSE node
    IN  IF depth > RecursionLimit THEN <<RecursionError>>
        ELSE CASE obj.t = "str" ->
                    <<create_token(fp, "value", obj.s, obj.s, 0, 0, Join(".", path))>>
               [] obj.t = "dict" -> YAMLParser_walk_dict(fp, root, obj.items, path, depth)
               [] obj.t = "list" -> YAMLParser_walk_list(fp, root, obj.items, path, depth, 0)
               [] OTHER -> <<>>

YAMLParser_walk_dict(fp, root, items, path, depth) ==
    IF Len(items) = 0 THEN <<>>
    ELSE <<create_token(fp, "key", items[1].k, items[1].k, 0, 0, Join(".", path))>>
         \o YAMLParser_walk(fp, root, items[1].v, Append(path, items[1].k), depth + 1)
         \o YAMLParser_walk_dict(fp, root, Tail(items), path, depth)

YAMLParser_walk_list(fp, root, items, path, depth, idx) ==
    IF Len(items) = 0 THEN <<>>
    ELSE YAMLParser_walk(fp, root, items[1],
                         Append(path, "[" \o ToString(idx) \o "]"), depth + 1)
         \o YAMLParser_walk_list(fp, root, Tail(items), path, depth, idx + 1)

YAMLParser_parse(fp, content) ==
    IF ~HAS_YAML \/ ~content.valid THEN <<>>
    ELSE BeforeRaise(YAMLParser_walk(fp, content.data, content.data, <<>>, 1))

\* line 228: the warning of the except clause
YAMLParser_stdout(fp, content) ==
    IF /\ HAS_YAML
       /\ \/ ~content.valid
          \/ Raises(YAMLParser_walk(fp, content.data, content.data, <<>>, 1))
    THEN <<"[WARN] YAML parse error in " \o fp>>
    ELSE <<>>

\* line 259: the warning of the except clause
JSONParser_stdout(fp, content) ==
    IF ~content.valid THEN <<"[WARN] JSON parse error in " \o fp>> ELSE <<>>

(***************************************************************************)
(* HCLParser.parse.  A Terraform file is its text and the value hcl2.loads *)
(* gives for it (or invalid).  _extract_literals calls itself once for     *)
(* each level of nesting and raises RecursionError as _walk does; parse    *)
(* catches it and returns the result of the fallback.                      *)
(***************************************************************************)
RECURSIVE HCLParser_extract_literals(_, _, _)
RECURSIVE HCLParser_extract_each(_, _, _, _)

HCLParser_extract_literals(fp, obj, depth) ==
    IF depth > RecursionLimit THEN <<RecursionError>>
    ELSE CASE obj.t = "str" -> <<create_token(fp, "value", obj.s, obj.s, 0, 0, None)>>
           [] obj.t = "dict" ->
                 HCLParser_extract_each(fp, [i \in 1..Len(obj.items) |-> obj.items[i].v],
                                        1, depth)
           [] obj.t = "list" -> HCLParser_extract_each(fp, obj.items, 1, depth)
           [] OTHER -> <<>>

HCLParser_extract_each(fp, objs, i, depth) ==
    IF i > Len(objs) THEN <<>>
    ELSE HCLParser_extract_literals(fp, objs[i], depth + 1)
         \o HCLParser_extract_each(fp, objs, i + 1, depth)

HCLParser_fallback_parse(fp, text) ==
    LET matches == finditer("QUOTED", text, 1)
    IN  [k \in 1..Len(matches) |->
            create_token(fp, "quoted_string",
                         SubSeq(matches[k].group, 2, Len(matches[k].group) - 1),
                         matches[k].group, 0, 0, None)]

\* a faulty variant, used to test the properties: the tokens collected before
\* the exception are kept in front of those of the fallback
HCLParser_parse_keeping(fp, content) ==
    IF ~HAS_HCL \/ ~content.valid THEN HCLParser_fallback_parse(fp, content.text)
    ELSE BeforeRaise(HCLParser_extract_literals(fp, content.data, 1))
         \o (IF Raises(HCLParser_extract_literals(fp, content.data, 1))
             THEN HCLParser_fallback_parse(fp, content.text) ELSE <<>>)

HCLParser_parse(fp, content) ==
    IF \/ ~HAS_HCL
       \/ ~content.valid
       \/ Raises(HCLParser_extract_literals(fp, content.data, 1))
    THEN HCLParser_fallback_parse(fp, content.text)
    ELSE HCLParser_extract_literals(fp, content.data, 1)

(***************************************************************************)
(* PARSER_REGISTRY and get_parser.                                         *)
(***************************************************************************)
PARSER_REGISTRY ==
    (".md" :> "MarkdownParser") @@ (".markdown" :> "MarkdownParser")
    @@ (".yaml" :> "YAMLParser") @@ (".yml" :> "YAMLParser")
    @@ (".json" :> "JSONParser")
    @@ (".tf" :> "HCLParser") @@ (".tfvars" :> "HCLParser")
    @@ (".sh" :> "ShellParser") @@ (".bash" :> "ShellParser")
    @@ (".zsh" :> "ShellParser")
    @@ ("dockerfile" :> "DockerfileParser") @@ ("Dockerfile" :> "DockerfileParser")
    @@ (".txt" :> "TextParser") @@ (".env" :> "TextParser")

\* a faulty variant, used to test the properties: the name and the extension are matched as written
get_parser_case_sensitive(filepath) ==
    LET name == PathName(filepath)
        ext == PathSuffix(filepath)
    IN  IF name \in DOMAIN PARSER_REGISTRY THEN PARSER_REGISTRY[name]
        ELSE IF ext \in DOMAIN PARSER_REGISTRY THEN PARSER_REGISTRY[ext]
        ELSE "TextParser"

get_parser(filepath) ==
    LET name == Lower(PathName(filepath))
        ext == Lower(PathSuffix(filepath))
    IN  IF name \in DOMAIN PARSER_REGISTRY THEN PARSER_REGISTRY[name]
        ELSE IF ext \in DOMAIN PARSER_REGISTRY THEN PARSER_REGISTRY[ext]
        ELSE "TextParser"

\* parser.parse() for the parser classes of the files modelled
parse(parser, fp, content) ==
    CASE parser = "MarkdownParser" -> MarkdownParser_parse(fp, content)
      [] parser = "YAMLParser" -> YAMLParser_parse(fp, content)
      [] parser = "JSONParser" -> JSONParser_parse(fp, content)
      [] parser = "HCLParser" -> HCLParser_parse(fp, content)
      [] parser = "DockerfileParser" -> DockerfileParser_parse(fp, content)
      [] parser = "TextParser" -> TextParser_parse(fp, content)

\* what parser.parse() prints
parse_stdout(parser, fp, content) ==
    CASE parser = "YAMLParser" -> YAMLParser_stdout(fp, content)
      [] parser = "JSONParser" -> JSONParser_stdout(fp, content)
      [] OTHER -> <<>>

(***************************************************************************)
(* extract_links, extract_headers, process_file.                           *)
(***************************************************************************)
SeqRange(seq) == {seq[i] : i \in 1..Len(seq)}

\* a faulty variant, used to test the properties: the web scheme is looked for before the value is stripped
extract_links_unstripped(tokens) ==
    {Strip(t.value) : t \in {u \in SeqRange(tokens) :
        /\ u.token_type \in {"reference", "url"}
        /\ Strip(u.value) # ""
        /\ ~IsWebUrl(u.value)}}

extract_links(tokens) ==
    {Strip(t.value) : t \in {u \in SeqRange(tokens) :
        /\ u.token_type \in {"reference", "url"}
        /\ Strip(u.value) # ""
        /\ ~IsWebUrl(Strip(u.value))}}

\* a faulty variant, used to test the properties: the headers are collected from the last token to the first
RECURSIVE extract_headers_reversed(_)
extract_headers_reversed(tokens) ==
    IF Len(tokens) = 0 THEN <<>>
    ELSE extract_headers_reversed(Tail(tokens))
         \o (IF tokens[1].token_type = "header" THEN <<tokens[1].value>> ELSE <<>>)

RECURSIVE extract_headers(_)
extract_headers(tokens) ==
    IF Len(tokens) = 0 THEN <<>>
    ELSE (IF tokens[1].token_type = "header" THEN <<tokens[1].value>> ELSE <<>>)
         \o extract_headers(Tail(tokens))

\* the Document process_file builds once the read has succeeded
process_file(rel_path, content, size) ==
    LET tokens == parse(get_parser(rel_path), rel_path, content)
        suffix == Lower(PathSuffix(rel_path))
    IN  [relative_path |-> rel_path,
         file_type |-> IF suffix = "" THEN "none" ELSE suffix,
         size |-> size,
         tokens |-> tokens,
         links |-> extract_links(tokens),
         headers |-> extract_headers(tokens)]

(***************************************************************************)
(* KnowledgeGraph.  graph.present says whether self.graph is a DiGraph     *)
(* (HAS_NETWORKX) or None; a DiGraph is its nodes, its edges with their    *)
(* relation attribute, and the attributes of each node.  doc_order is the  *)
(* insertion order of the documents dict, token_keys that of token_index.  *)
(***************************************************************************)
EmptyMap == [x \in {} |-> {}]

NoAttrs == [annotated |-> FALSE, type |-> "", size |-> 0, tokens |-> 0]

KnowledgeGraph(has_networkx) ==
    [documents |-> EmptyMap,
     doc_order |-> <<>>,
     token_index |-> EmptyMap,
     token_keys |-> <<>>,
     file_relationships |-> EmptyMap,
     graph |-> [present |-> has_networkx, nodes |-> {}, edges |-> {},
                attrs |-> EmptyMap]]

\* a faulty variant, used to test the properties: the list of a value is replaced, not appended to
RECURSIVE IndexTokens_replacing(_, _)
IndexTokens_replacing(index, tokens) ==
    IF Len(tokens) = 0 THEN index
    ELSE IndexTokens_replacing((tokens[1].value :> <<tokens[1]>>) @@ index,
                               Tail(tokens))

\* token_index[token.value].append(token) for each token, in order
RECURSIVE IndexTokens(_, _)
IndexTokens(index, tokens) ==
    IF Len(tokens) = 0 THEN index
    ELSE LET t == tokens[1]
             old == IF t.value \in DOMAIN index THEN index[t.value] ELSE <<>>
         IN  IndexTokens((t.value :> Append(old, t)) @@ index, Tail(tokens))

\* the keys of token_index in the order of their first insertion
RECURSIVE IndexKeys(_, _)
IndexKeys(keys, tokens) ==
    IF Len(tokens) = 0 THEN keys
    ELSE IndexKeys(IF tokens[1].value \in SeqRange(keys) THEN keys
                   ELSE Append(keys, tokens[1].value),
                   Tail(tokens))

\* a faulty variant, used to test the properties: the relationship is filed under the link instead of the document
AddRelationships_by_target(rel, doc) ==
    [l \in doc.links |->
        (IF l \in DOMAIN rel THEN rel[l] ELSE {}) \cup {doc.relative_path}] @@ rel

\* file_relationships[doc.relative_path].add(link) for each link
AddRelationships(rel, doc) ==
    IF doc.links = {} THEN rel
    ELSE LET old == IF doc.relative_path \in DOMAIN rel
                    THEN rel[doc.relative_path] ELSE {}
         IN  (doc.relative_path :> (old \cup doc.links)) @@ rel

\* a faulty variant, used to test the properties: the edge runs from the link to the document
AddEdges_reversed(graph, doc) ==
    IF ~graph.present \/ doc.links = {} THEN graph
    ELSE LET new == ({doc.relative_path} \cup doc.links) \ graph.nodes
         IN  [graph EXCEPT
                !.nodes = @ \cup {doc.relative_path} \cup doc.links,
                !.edges = @ \cup {[src |-> l, dst |-> doc.relative_path,
                                   relation |-> "references"] : l \in doc.links},
                !.attrs = [n \in new |-> NoAttrs] @@ @]

\* graph.add_edge(doc.relative_path, link, relation='references') for each link
AddEdges(graph, doc) ==
    IF ~graph.present \/ doc.links = {} THEN graph
    ELSE LET new == ({doc.relative_path} \cup doc.links) \ graph.nodes
         IN  [graph EXCEPT
                !.nodes = @ \cup {doc.relative_path} \cup doc.links,
                !.edges = @ \cup {[src |-> doc.relative_path, dst |-> l,
                                   relation |-> "references"] : l \in doc.links},
                !.attrs = [n \in new |-> NoAttrs] @@ @]

add_document(g, doc) ==
    [documents |-> (doc.relative_path :> doc) @@ g.documents,
     doc_order |-> IF doc.relative_path \in DOMAIN g.documents THEN g.doc_order
                   ELSE Append(g.doc_order, doc.relative_path),
     token_index |-> IndexTokens(g.token_index, doc.tokens),
     token_keys |-> IndexKeys(g.token_keys, doc.tokens),
     file_relationships |-> AddRelationships(g.file_relationships, doc),
     graph |-> AddEdges(g.graph, doc)]

(***************************************************************************)
(* get_statistics: the counts over documents, relationships and the graph. *)
(* number_of_edges counts the (source, target) pairs of the DiGraph.       *)
(***************************************************************************)
RECURSIVE SumOfSizes(_, _)
SumOfSizes(rel, keys) ==
    IF keys = {} THEN 0
    ELSE LET k == CHOOSE x \in keys : TRUE
         IN  Cardinality(rel[k]) + SumOfSizes(rel, keys \ {k})

number_of_edges(graph) == Cardinality({<<e.src, e.dst>> : e \in graph.edges})

get_statistics(g) ==
    [total_documents |-> Cardinality(DOMAIN g.documents),
     unique_tokens |-> Cardinality(DOMAIN g.token_index),
     total_relationships |-> SumOfSizes(g.file_relationships,
                                        DOMAIN g.file_relationships),
     graph_nodes |-> IF g.graph.present THEN Cardinality(g.graph.nodes) ELSE None,
     graph_edges |-> IF g.graph.present THEN number_of_edges(g.graph) ELSE None]

(***************************************************************************)
(* get_related_documents.  nx.descendants and nx.ancestors are breadth-    *)
(* first searches from the node (along the edges, and against them) that   *)
(* return the nodes found other than the node itself, and raise            *)
(* NetworkXError for a node that is not in the graph.                      *)
(***************************************************************************)
Successors(graph, n) == {e.dst : e \in {x \in graph.edges : x.src = n}}
Predecessors(graph, n) == {e.src : e \in {x \in graph.edges : x.dst = n}}

Neighbors(graph, n, forward) ==
    IF forward THEN Successors(graph, n) ELSE Predecessors(graph, n)

RECURSIVE Bfs(_, _, _, _)
Bfs(graph, frontier, seen, forward) ==
    LET next == UNION {Neighbors(graph, n, forward) : n \in frontier} \ seen
    IN  IF next = {} THEN seen ELSE Bfs(graph, next, seen \cup next, forward)

nx_descendants(graph, source) == Bfs(graph, {source}, {source}, TRUE) \ {source}
nx_ancestors(graph, source) == Bfs(graph, {source}, {source}, FALSE) \ {source}

\* a faulty variant, used to test the properties: the traversal stops max_depth edges away from the node
RECURSIVE BfsBounded(_, _, _, _, _)
BfsBounded(graph, frontier, seen, forward, depth) ==
    LET next == UNION {Neighbors(graph, n, forward) : n \in frontier} \ seen
    IN  IF depth = 0 \/ next = {} THEN seen
        ELSE BfsBounded(graph, next, seen \cup next, forward, depth - 1)

get_related_documents_bounded(g, filepath, max_depth) ==
    IF ~g.graph.present
    THEN IF filepath \in DOMAIN g.file_relationships
         THEN g.file_relationships[filepath] ELSE {}
    ELSE IF filepath \notin g.graph.nodes THEN {}
    ELSE (BfsBounded(g.graph, {filepath}, {filepath}, TRUE, max_depth)
          \cup BfsBounded(g.graph, {filepath}, {filepath}, FALSE, max_depth))
         \ {filepath}

get_related_documents(g, filepath, max_depth) ==
    IF ~g.graph.present
    THEN IF filepath \in DOMAIN g.file_relationships
         THEN g.file_relationships[filepath] ELSE {}
    ELSE IF filepath \notin g.graph.nodes THEN {}
    ELSE nx_descendants(g.graph, filepath) \cup nx_ancestors(g.graph, filepath)

(***************************************************************************)
(* find_similar_tokens.  difflib.SequenceMatcher(None, a, b).ratio() is    *)
(* 2*M/T: T the number of characters of both strings and M the characters  *)
(* in the matching blocks, found by taking the longest block the two       *)
(* strings share (the earliest in a, then the earliest in b, among the     *)
(* longest) and matching again to its left and to its right.  A threshold  *)
(* is a number of tenths.                                                  *)
(***************************************************************************)
Min(x, y) == IF x <= y THEN x ELSE y

find_longest_match(a, alo, ahi, b, blo, bhi) ==
    LET blocks == {m \in (alo..ahi) \X (blo..bhi) \X (1..(ahi - alo + 1)) :
                        /\ m[1] + m[3] - 1 <= ahi
                        /\ m[2] + m[3] - 1 <= bhi
                        /\ SubSeq(a, m[1], m[1] + m[3] - 1)
                                = SubSeq(b, m[2], m[2] + m[3] - 1)}
    IN  IF blocks = {} THEN <<alo, blo, 0>>
        ELSE CHOOSE m \in blocks : \A o \in blocks :
                \/ m[3] > o[3]
                \/ m[3] = o[3] /\ m[1] < o[1]
                \/ m[3] = o[3] /\ m[1] = o[1] /\ m[2] <= o[2]

RECURSIVE matching_characters(_, _, _, _, _, _)
matching_characters(a, alo, ahi, b, blo, bhi) ==
    IF alo > ahi \/ blo > bhi THEN 0
    ELSE LET m == find_longest_match(a, alo, ahi, b, blo, bhi)
         IN  IF m[3] = 0 THEN 0
             ELSE m[3]
                  + matching_characters(a, alo, m[1] - 1, b, blo, m[2] - 1)
                  + matching_characters(a, m[1] + m[3], ahi, b, m[2] + m[3], bhi)

\* ratio() >= tenths / 10
ratio_at_least(a, b, tenths) ==
    IF Len(a) + Len(b) = 0 THEN 10 >= tenths
    ELSE 20 * matching_characters(a, 1, Len(a), b, 1, Len(b))
            >= tenths * (Len(a) + Len(b))

\* a faulty variant, used to test the properties: the strings are compared as written
RECURSIVE find_similar_loop_cased(_, _, _)
find_similar_loop_cased(keys, value, threshold) ==
    IF Len(keys) = 0 THEN <<>>
    ELSE (IF ratio_at_least(value, keys[1], threshold) /\ keys[1] # value
          THEN <<keys[1]>> ELSE <<>>)
         \o find_similar_loop_cased(Tail(keys), value, threshold)

\* lines 580-583: the loop over self.token_index.keys()
RECURSIVE find_similar_loop(_, _, _)
find_similar_loop(keys, value, threshold) ==
    IF Len(keys) = 0 THEN <<>>
    ELSE (IF ratio_at_least(Lower(value), Lower(keys[1]), threshold) /\ keys[1] # value
          THEN <<keys[1]>> ELSE <<>>)
         \o find_similar_loop(Tail(keys), value, threshold)

find_similar_tokens(g, value, threshold) ==
    find_similar_loop(g.token_keys, value, threshold)

(***************************************************************************)
(* The tree under root that the runs scan: relative path -> content.       *)
(***************************************************************************)
Root == "/repo"

TreeEntries == <<"A.md", "B.md", "Dockerfile", "c.json",
                 ".git/x.md", "img.png", "archive.md">>
TreeDirs == {"archive.md"}

Content(p) ==
    CASE p = "A.md" -> <<MdHeader(1, "Title"), MdLink("x", "B.md"),
                         MdLink("m", "missing.md"), MdUrl("https://e.com")>>
      [] p = "B.md" -> <<MdLink("a", " A.md "), MdLink("self", "B.md"),
                         MdLink("w", "https://w.org"), MdLink("c", "c.json"),
                         MdItem("Title")>>
      [] p = "Dockerfile" -> <<DfLine("FROM", "python:3", ""),
                               DfLine("LABEL", "v", "1"),
                               DfLine("ARG", "FOO", "")>>
      [] p = "c.json" -> [valid |-> TRUE,
                          data |-> JDict(<<JItem("a", JDict(<<JItem("b", JStr("hi"))>>)),
                                           JItem("e", JStr("")),
                                           JItem("n", JList(<<JNum, JStr("Title")>>))>>)]
      [] p = ".git/x.md" -> <<MdLink("x", "A.md")>>
      [] OTHER -> <<>>

\* len(content): the number of characters read
Size(p) ==
    CASE p = "A.md" -> 48
      [] p = "B.md" -> 64
      [] p = "Dockerfile" -> 31
      [] p = "c.json" -> 46
      [] OTHER -> 12

\* a later version of A.md, for library use of the KnowledgeGraph
ContentV2 == <<MdHeader(2, "Changed"), MdLink("d", "Dockerfile")>>
SizeV2 == 27

(***************************************************************************)
(* main, lines 859-881: the scan.                                          *)
(***************************************************************************)
DefaultExcludes == {".git", "__pycache__", "node_modules", ".venv"}

Eligible(files, cmd, p) ==
    /\ p \notin files.dirs
    /\ ~\E pattern \in cmd.exclude \cup DefaultExcludes :
            Contains(files.root \o "/" \o p, pattern)
    /\ \/ Lower(PathSuffix(p)) \in (DOMAIN PARSER_REGISTRY) \cup cmd.include_exts
       \/ Lower(PathName(p)) \in (DOMAIN PARSER_REGISTRY) \cup cmd.include_exts

RECURSIVE Scan(_, _, _)
Scan(files, cmd, entries) ==
    IF Len(entries) = 0 THEN <<>>
    ELSE (IF Eligible(files, cmd, entries[1]) THEN <<entries[1]>> ELSE <<>>)
         \o Scan(files, cmd, Tail(entries))

(***************************************************************************)
(* OutputManager: what each writer does to the store and to the graph.     *)
(***************************************************************************)
AllFormats == {"json", "sqlite", "csv", "graphml", "summary"}

Artifact(format) ==
    CASE format = "json" -> "knowledge_graph.json"
      [] format = "sqlite" -> "documents.db"
      [] format = "csv" -> "token_frequency.csv"
      [] format = "graphml" -> "relationships.graphml"
      [] format = "summary" -> "SUMMARY.md"

\* the directory the artifacts are written into (--output)
OutputDir == "doc_structure/"

EmptyDb == [documents |-> EmptyMap, tokens |-> <<>>, relationships |-> {}]

RECURSIVE DocRows(_, _, _)
DocRows(table, g, order) ==
    IF Len(order) = 0 THEN table
    ELSE LET doc == g.documents[order[1]]
         IN  DocRows((doc.relative_path :>
                        [file_type |-> doc.file_type, size |-> doc.size,
                         token_count |-> Len(doc.tokens)]) @@ table,
                     g, Tail(order))

RECURSIVE TokenRows(_, _, _)
TokenRows(table, g, order) ==
    IF Len(order) = 0 THEN table
    ELSE LET doc == g.documents[order[1]]
             rows == [i \in 1..Len(doc.tokens) |->
                        [file |-> doc.relative_path,
                         token_type |-> doc.tokens[i].token_type,
                         value |-> doc.tokens[i].value,
                         raw |-> doc.tokens[i].raw,
                         line |-> doc.tokens[i].line,
                         col |-> doc.tokens[i].col,
                         context |-> doc.tokens[i].context]]
         IN  TokenRows(table \o rows, g, Tail(order))

RelationshipRows(g) ==
    LET rel == g.file_relationships
    IN  {r \in (DOMAIN rel) \X UNION {rel[s] : s \in DOMAIN rel} : r[2] \in rel[r[1]]}

write_sqlite(store, g) ==
    [documents |-> DocRows(store.documents, g, g.doc_order),
     tokens |-> TokenRows(store.tokens, g, g.doc_order),
     relationships |-> store.relationships \cup RelationshipRows(g)]

\* write_graphml, lines 762-768: the node attributes it sets before the export
write_graphml(g) ==
    [g EXCEPT !.graph.attrs =
        [n \in DOMAIN @ |->
            IF n \in DOMAIN g.documents
            THEN [annotated |-> TRUE,
                  type |-> g.documents[n].file_type,
                  size |-> g.documents[n].size,
                  tokens |-> Len(g.documents[n].tokens)]
            ELSE @[n]]]

(***************************************************************************)
(* insights_report.py: DocAnalyzer._find_orphaned (the same query as       *)
(* query_docs.py: DocAnalyzer.orphaned_files) and _find_broken_references. *)
(***************************************************************************)
\* a faulty variant, used to test the properties: the query leaves out the source column
find_orphaned_targets_only(store) ==
    {p \in DOMAIN store.documents :
        p \notin {r[2] : r \in store.relationships}}

find_orphaned(store) ==
    {p \in DOMAIN store.documents :
        p \notin {r[1] : r \in store.relationships}
                   \cup {r[2] : r \in store.relationships}}

\* a faulty variant, used to test the properties: the query tests the source column
find_broken_references_by_source(store) ==
    {r \in store.relationships : r[1] \notin DOMAIN store.documents}

find_broken_references(store) ==
    {r \in store.relationships : r[2] \notin DOMAIN store.documents}

(***************************************************************************)
(* The audio generator (audio-generation/): idle values of its state.      *)
(***************************************************************************)
NoResults ==
    [total_attempted |-> 0, total_successful |-> 0, total_failed |-> 0,
     total_skipped |-> 0, total_credits_used |-> 0, assets |-> <<>>]

\* what check_budget returned last, and for which asset it was called
NoCheck == [asset_id |-> None, can_proceed |-> FALSE, message |-> None,
            remaining_credits |-> 0, estimated_cost |-> 0]

\* the arguments of generate_assets
NoFilter == [phase_filter |-> <<>>, asset_id_filter |-> None,
             generate_all |-> FALSE]

\* an AudioGenerator: assets_to_generate holds indexes into the manifest, done
\* the number of them the loop has finished with
NoGen == [dry_run |-> FALSE, filter |-> NoFilter, safety_margin |-> 0,
          assets_to_generate |-> <<>>, done |-> 0, check |-> NoCheck,
          results |-> NoResults]

\* the ElevenLabs service: the requests it has received, in order
NoCloud == [log |-> <<>>]

\* an optional number: <<>> is Python's None, <<x>> the number x
NoNumber == <<>>
Number(x) == <<x>>

NoPost == [asset_type |-> None, bitrate_kbps |-> 0, normalize_target |-> NoNumber,
           convert_ok |-> FALSE, normalize_ok |-> FALSE, returned |-> FALSE,
           steps |-> <<>>]

(***************************************************************************)
(* post_process.py: post_process_audio.  Levels are in tenths of a dB.     *)
(* convert_to_ogg and the two normalizers catch their exceptions and       *)
(* return whether they succeeded; steps lists the calls made with their    *)
(* arguments, in order.                                                    *)
(***************************************************************************)
DefaultPeakDbfs == -30     \* -3.0 dBFS
DefaultLoudnessLufs == -160   \* -16.0 LUFS

\* the truth value Python gives an optional number
Truthy(x) == x # NoNumber /\ x[1] # 0

post_process_audio(asset_type, bitrate_kbps, normalize_target, convert_ok, normalize_ok) ==
    LET convert == [fn |-> "convert_to_ogg", arg |-> bitrate_kbps]
        target == IF Truthy(normalize_target) THEN normalize_target[1]
                  ELSE IF asset_type = "music" THEN DefaultLoudnessLufs
                  ELSE DefaultPeakDbfs
        normalize == [fn |-> IF asset_type = "music" THEN "normalize_music_lufs"
                             ELSE "normalize_sfx_peak",
                      arg |-> target]
    IN  IF ~convert_ok THEN [returned |-> FALSE, steps |-> <<convert>>]
        ELSE [returned |-> normalize_ok, steps |-> <<convert, normalize>>]

(***************************************************************************)
(* budget_guard.py.  A credit fetch (get_remaining_credits) ends in one of *)
(* three ways: the service answers and remaining = character_limit -       *)
(* character_count; requests raises a RequestException (no connection, an  *)
(* error status, a body that is not JSON); or the answer is JSON of        *)
(* another shape (a null subscription, a list) and the .get calls raise an *)
(* AttributeError, which check_budget does not catch.  Durations are in    *)
(* tenths of a second, for which int(duration * credits_per_second) is     *)
(* exact.                                                                  *)
(***************************************************************************)
DefaultSafetyMargin == 5000

Fetched(remaining) == [status |-> "ok", remaining |-> remaining]
FetchFailed == [status |-> "RequestException", remaining |-> 0]
FetchMalformed == [status |-> "AttributeError", remaining |-> 0]

estimate_cost(duration_tenths, asset_type) ==
    LET credits_per_second == IF asset_type = "music" THEN 300 ELSE 200
    IN  (duration_tenths * credits_per_second) \div 10 + 50

\* a variant that forgets the safety margin
check_budget_without_margin(safety_margin, fetch, duration_tenths, asset_type, asset_id) ==
    IF fetch.status = "RequestException"
    THEN [asset_id |-> asset_id, can_proceed |-> FALSE, message |-> "failed",
          remaining_credits |-> 0, estimated_cost |-> 0]
    ELSE LET estimated_cost == estimate_cost(duration_tenths, asset_type)
         IN  [asset_id |-> asset_id,
              can_proceed |-> ~(fetch.remaining < estimated_cost),
              message |-> IF fetch.remaining < estimated_cost
                          THEN "insufficient" ELSE "ok",
              remaining_credits |-> fetch.remaining,
              estimated_cost |-> estimated_cost]

\* check_budget for a fetch that did not raise past it (status ok or
\* RequestException); the message is reduced to its kind
check_budget(safety_margin, fetch, duration_tenths, asset_type, asset_id) ==
    IF fetch.status = "RequestException"
    THEN [asset_id |-> asset_id, can_proceed |-> FALSE, message |-> "failed",
          remaining_credits |-> 0, estimated_cost |-> 0]
    ELSE LET estimated_cost == estimate_cost(duration_tenths, asset_type)
             available_for_use == fetch.remaining - safety_margin
         IN  [asset_id |-> asset_id,
              can_proceed |-> ~(available_for_use < estimated_cost),
              message |-> IF available_for_use < estimated_cost
                          THEN "insufficient" ELSE "ok",
              remaining_credits |-> fetch.remaining,
              estimated_cost |-> estimated_cost]

(***************************************************************************)
(* generate_assets.py.  The manifest is a sample with an asset of each     *)
(* type, one of them without a "type" key; technical_standards is left out *)
(* of it, so the bitrates and targets are the defaults of the .get calls.  *)
(***************************************************************************)
Manifest ==
    << [id |-> "sfx_jump", type |-> "sfx", phase |-> <<1>>,
        duration_seconds |-> 5, output_path |-> "assets/sfx/jump.ogg"],
       [id |-> "music_menu", type |-> "music", phase |-> <<2>>,
        duration_seconds |-> 30, output_path |-> "assets/music/menu.ogg"],
       [id |-> "sfx_land", type |-> None, phase |-> <<1>>,
        duration_seconds |-> 10, output_path |-> "assets/sfx/land.ogg"] >>

UserInfoUrl == "GET https://api.elevenlabs.io/v1/user"
ResultsFile == "generation_results.json"

\* asset.get("type", "sfx")
AssetType(asset) == IF asset.type = None THEN "sfx" ELSE asset.type

\* the generator called for an asset, and the type it passes on
GeneratedAs(asset) == IF AssetType(asset) = "music" THEN "music" ELSE "sfx"

\* output_path.replace(".ogg", "_raw.mp3") for a path with one ".ogg", at
\* its end
RawMp3Path(output_path) ==
    SubSeq(output_path, 1, Len(output_path) - 4) \o "_raw.mp3"

\* the client calls of generate_sfx and of generate_music, in order
GenerationCalls(asset_type) ==
    IF asset_type = "music" THEN <<"music.plan", "music.compose">>
    ELSE <<"text_to_sound_effects.convert">>

\* the filter loop of generate_assets
Matches(asset, filter) ==
    \/ filter.generate_all
    \/ /\ filter.asset_id_filter # None
       /\ filter.asset_id_filter # ""
       /\ asset.id = filter.asset_id_filter
    \/ /\ Truthy(filter.phase_filter)
       /\ asset.phase = filter.phase_filter

FilterAssets(filter) ==
    SelectSeq([k \in 1..Len(Manifest) |-> k],
              LAMBDA k : Matches(Manifest[k], filter))

\* a variant of the result tracking that loses the failures
Track_successes_only(res, asset_id, success) ==
    [res EXCEPT !.assets = IF success
                           THEN Append(@, [id |-> asset_id, success |-> success])
                           ELSE @,
                !.total_successful = IF success THEN @ + 1 ELSE @]

\* the result tracking at the end of the loop body
Track(res, asset_id, success) ==
    [res EXCEPT !.assets = Append(@, [id |-> asset_id, success |-> success]),
                !.total_successful = IF success THEN @ + 1 ELSE @,
                !.total_failed = IF success THEN @ ELSE @ + 1]


(***************************************************************************)
(* One run of main.                                                        *)
(***************************************************************************)
Pool == 1..MaxWorkers

Parseable == {"A.md", "B.md", "Dockerfile", "c.json"}

FormatChoices == {{"all"}, {"json", "sqlite"}, {"graphml", "summary", "csv"}}

NoQuery == [path |-> None, depth |-> 0, result |-> {}]
NoDoc == [relative_path |-> None, file_type |-> "none", size |-> 0,
          tokens |-> <<>>, links |-> {}, headers |-> <<>>]
NoParse == [op |-> None, name |-> None, parser |-> None, doc |-> NoDoc,
            stdout |-> <<>>]
NoSimilar == [value |-> None, threshold |-> 0, result |-> <<>>]
NoInsights == [ran |-> FALSE, orphaned_files |-> {}, broken_references |-> {}]

\* the tree of the runs holds no file of the two formats whose parsers depend
\* on HAS_YAML and HAS_HCL; root is missing, or there but not permitted to be
\* listed, or there and readable
Init ==
    /\ HAS_YAML = FALSE
    /\ HAS_HCL = FALSE
    /\ HAS_NETWORKX \in BOOLEAN
    /\ fs \in {[root |-> Root, root_exists |-> er[1], root_readable |-> er[2],
                entries |-> IF er[1] THEN TreeEntries ELSE <<>>,
                dirs |-> IF er[1] THEN TreeDirs ELSE {},
                read_failed |-> {}, stat_failed |-> {}, unwritable |-> {}] :
                    er \in {<<FALSE, FALSE>>, <<TRUE, FALSE>>, <<TRUE, TRUE>>}}
    /\ args \in {[formats |-> fm, exclude |-> {}, include_exts |-> {},
                  workers |-> MaxWorkers] : fm \in FormatChoices}
    /\ pc = "start"
    /\ all_files = <<>>
    /\ futures = EmptyMap
    /\ results = EmptyMap
    /\ workers = [w \in Pool |-> Idle]
    /\ yielded = {}
    /\ cur = NoDoc
    /\ processed = 0
    /\ kg = KnowledgeGraph(HAS_NETWORKX)
    /\ written = {}
    /\ notices = {}
    /\ db = EmptyDb
    /\ kgAtOutput = KnowledgeGraph(HAS_NETWORKX)
    /\ calls = 0
    /\ lastDoc = NoDoc
    /\ kgBefore = KnowledgeGraph(HAS_NETWORKX)
    /\ related = NoQuery
    /\ parsed = NoParse
    /\ similar = NoSimilar
    /\ insights = NoInsights
    /\ gen = NoGen
    /\ cloud = NoCloud
    /\ disk = {}
    /\ post = NoPost

flagVars == <<HAS_YAML, HAS_HCL, HAS_NETWORKX>>
audioVars == <<gen, cloud, disk, post>>
envVars == <<flagVars, audioVars, fs, args>>
apiVars == <<calls, lastDoc, kgBefore, related, parsed, similar>>
poolVars == <<all_files, futures, results, workers, yielded, cur, processed>>
outVars == <<written, notices, db, kgAtOutput, insights>>

\* lines 852-855: return 1 when root does not exist
Main_Setup ==
    /\ pc = "start"
    /\ pc' = IF fs.root_exists THEN "scan" ELSE "exit_1"
    /\ UNCHANGED <<envVars, apiVars, poolVars, outVars, kg>>

\* lines 857-890: the scan (rglob lists nothing under a directory it is not
\* permitted to read), KnowledgeGraph() and the submission of every file
Main_Scan ==
    /\ pc = "scan"
    /\ all_files' = Scan(fs, args, IF fs.root_readable THEN fs.entries ELSE <<>>)
    /\ futures' = [p \in SeqRange(all_files') |-> "pending"]
    /\ results' = [p \in SeqRange(all_files') |-> [kind |-> "none", doc |-> NoDoc]]
    /\ kg' = KnowledgeGraph(HAS_NETWORKX)
    /\ processed' = 0
    /\ pc' = "pool"
    /\ UNCHANGED <<envVars, apiVars, workers, yielded, cur, outVars>>

\* a pool process takes the next work item, in submission order
Worker_Take(w) ==
    /\ workers[w] = Idle
    /\ \E i \in 1..Len(all_files) :
        /\ futures[all_files[i]] = "pending"
        /\ \A j \in 1..(i - 1) : futures[all_files[j]] # "pending"
        /\ workers' = [workers EXCEPT ![w] = all_files[i]]
        /\ futures' = [futures EXCEPT ![all_files[i]] = "running"]
    /\ UNCHANGED <<envVars, apiVars, pc, all_files, results, yielded, cur,
                   processed, kg, outVars>>

\* a faulty variant, used to test the properties: the pool process merges its Document into the graph itself
Worker_process_file_merging(w) ==
    /\ workers[w] # Idle
    /\ \E outcome \in {"doc", "none", "raised"} :
        LET p == workers[w]
        IN  /\ outcome # "doc" =>
                    Cardinality(fs.read_failed \cup fs.stat_failed) < MaxFailures
            /\ fs' = [fs EXCEPT
                        !.read_failed = IF outcome = "none" THEN @ \cup {p} ELSE @,
                        !.stat_failed = IF outcome = "raised" THEN @ \cup {p} ELSE @]
            /\ results' = [results EXCEPT ![p] =
                    [kind |-> IF outcome = "doc" THEN "none" ELSE outcome,
                     doc |-> NoDoc]]
            /\ kg' = IF outcome = "doc"
                     THEN add_document(kg, process_file(p, Content(p), Size(p)))
                     ELSE kg
            /\ futures' = [futures EXCEPT ![p] = "done"]
    /\ workers' = [workers EXCEPT ![w] = Idle]
    /\ UNCHANGED <<flagVars, audioVars, args, apiVars, pc, all_files, yielded, cur,
                   processed, outVars>>

\* process_file in the pool process: None when safe_read fails, the exception
\* when stat raises, the Document otherwise
Worker_process_file(w) ==
    /\ workers[w] # Idle
    /\ \E outcome \in {"doc", "none", "raised"} :
        LET p == workers[w]
        IN  /\ outcome # "doc" =>
                    Cardinality(fs.read_failed \cup fs.stat_failed) < MaxFailures
            /\ fs' = [fs EXCEPT
                        !.read_failed = IF outcome = "none" THEN @ \cup {p} ELSE @,
                        !.stat_failed = IF outcome = "raised" THEN @ \cup {p} ELSE @]
            /\ results' = [results EXCEPT ![p] =
                    [kind |-> outcome,
                     doc |-> IF outcome = "doc"
                             THEN process_file(p, Content(p), Size(p)) ELSE NoDoc]]
            /\ futures' = [futures EXCEPT ![p] = "done"]
    /\ workers' = [workers EXCEPT ![w] = Idle]
    /\ UNCHANGED <<flagVars, audioVars, args, apiVars, pc, all_files, yielded, cur,
                   processed, kg, outVars>>

\* a faulty variant, used to test the properties: the result is merged without the test for None
Main_Result_unchecked(p) ==
    /\ pc = "pool"
    /\ p \in DOMAIN futures
    /\ futures[p] = "done"
    /\ p \notin yielded
    /\ yielded' = yielded \cup {p}
    /\ pc' = IF results[p].kind = "raised" THEN "crash_pool" ELSE "merge"
    /\ cur' = results[p].doc
    /\ UNCHANGED <<envVars, apiVars, all_files, futures, results, workers,
                   processed, kg, outVars>>

\* lines 892-894: as_completed yields a finished future; future.result()
Main_Result(p) ==
    /\ pc = "pool"
    /\ p \in DOMAIN futures
    /\ futures[p] = "done"
    /\ p \notin yielded
    /\ yielded' = yielded \cup {p}
    /\ pc' = CASE results[p].kind = "raised" -> "crash_pool"
               [] results[p].kind = "doc" -> "merge"
               [] OTHER -> "pool"
    /\ cur' = IF results[p].kind = "doc" THEN results[p].doc ELSE cur
    /\ UNCHANGED <<envVars, apiVars, all_files, futures, results, workers,
                   processed, kg, outVars>>

\* lines 895-896
Main_add_document ==
    /\ pc = "merge"
    /\ kg' = add_document(kg, cur)
    /\ processed' = processed + 1
    /\ pc' = "pool"
    /\ UNCHANGED <<envVars, apiVars, all_files, futures, results, workers,
                   yielded, cur, outVars>>

\* lines 901-909: the pool is exhausted; OutputManager(output_dir) creates the
\* output directory
Main_Outputs ==
    /\ pc = "pool"
    /\ yielded = DOMAIN futures
    /\ kgAtOutput' = kg
    /\ written' = written \cup {OutputDir}
    /\ pc' = "json"
    /\ UNCHANGED <<envVars, apiVars, poolVars, kg, notices, db, insights>>

Selected(format) == "all" \in args.formats \/ format \in args.formats

NextStage(format) ==
    CASE format = "json" -> "sqlite"
      [] format = "sqlite" -> "csv"
      [] format = "csv" -> "graphml"
      [] format = "graphml" -> "summary"
      [] format = "summary" -> "exit_0"

\* lines 911-924: one writer; opening the artifact may raise OSError, and an
\* exception raised by a writer leaves main
Main_Write(format) ==
    /\ pc = format
    /\ format \in AllFormats
    /\ \E fails \in BOOLEAN :
        LET skip == format = "graphml" /\ ~(HAS_NETWORKX /\ kg.graph.present)
        IN  IF ~Selected(format) \/ skip
            THEN /\ ~fails
                 /\ pc' = NextStage(format)
                 /\ notices' = IF Selected(format)
                                THEN notices \cup {"[SKIP] NetworkX not available"}
                                ELSE notices
                 /\ UNCHANGED <<fs, kg, written, db>>
            ELSE /\ pc' = IF fails THEN "crash_output" ELSE NextStage(format)
                 /\ fs' = IF fails
                          THEN [fs EXCEPT !.unwritable = @ \cup {Artifact(format)}]
                          ELSE fs
                 /\ kg' = IF format = "graphml" THEN write_graphml(kg) ELSE kg
                 /\ db' = IF format = "sqlite" /\ ~fails THEN write_sqlite(db, kg)
                          ELSE db
                 /\ written' = IF fails THEN written
                               ELSE written \cup {Artifact(format)}
                 /\ UNCHANGED notices
    /\ UNCHANGED <<flagVars, audioVars, args, apiVars, poolVars, kgAtOutput, insights>>

\* insights_report.py run on the store the finished run wrote
Report_generate_insights ==
    /\ pc = "exit_0"
    /\ "documents.db" \in written
    /\ ~insights.ran
    /\ insights' = [ran |-> TRUE,
                    orphaned_files |-> find_orphaned(db),
                    broken_references |-> find_broken_references(db)]
    /\ UNCHANGED <<envVars, apiVars, poolVars, pc, kg, written, notices, db,
                   kgAtOutput>>

Next ==
    \/ Main_Setup
    \/ Main_Scan
    \/ \E w \in Pool : Worker_Take(w)
    \/ \E w \in Pool : Worker_process_file(w)
    \/ \E p \in Parseable : Main_Result(p)
    \/ Main_add_document
    \/ Main_Outputs
    \/ \E format \in AllFormats : Main_Write(format)
    \/ Report_generate_insights

Spec == Init /\ [][Next]_vars

(***************************************************************************)
(* Library use of one KnowledgeGraph: any sequence of add_document and     *)
(* get_related_documents calls, with Documents process_file produces.      *)
(***************************************************************************)
DocPool ==
    {process_file(p, Content(p), Size(p)) : p \in Parseable}
    \cup {process_file("A.md", ContentV2, SizeV2)}

QueryPaths == Parseable \cup {"python:3", "missing.md", "nowhere.md"}

InitKG ==
    /\ HAS_YAML = FALSE
    /\ HAS_HCL = FALSE
    /\ HAS_NETWORKX \in BOOLEAN
    /\ fs = [root |-> Root, root_exists |-> TRUE, root_readable |-> TRUE,
             entries |-> TreeEntries,
             dirs |-> TreeDirs, read_failed |-> {}, stat_failed |-> {},
             unwritable |-> {}]
    /\ args = [formats |-> {"all"}, exclude |-> {}, include_exts |-> {},
               workers |-> MaxWorkers]
    /\ pc = "api"
    /\ all_files = <<>>
    /\ futures = EmptyMap
    /\ results = EmptyMap
    /\ workers = [w \in Pool |-> Idle]
    /\ yielded = {}
    /\ cur = NoDoc
    /\ processed = 0
    /\ kg = KnowledgeGraph(HAS_NETWORKX)
    /\ written = {}
    /\ notices = {}
    /\ db = EmptyDb
    /\ kgAtOutput = KnowledgeGraph(HAS_NETWORKX)
    /\ calls = 0
    /\ lastDoc = NoDoc
    /\ kgBefore = KnowledgeGraph(HAS_NETWORKX)
    /\ related = NoQuery
    /\ parsed = NoParse
    /\ similar = NoSimilar
    /\ insights = NoInsights
    /\ gen = NoGen
    /\ cloud = NoCloud
    /\ disk = {}
    /\ post = NoPost

Api_add_document(doc) ==
    /\ pc = "api"
    /\ calls < MaxCalls
    /\ calls' = calls + 1
    /\ kgBefore' = kg
    /\ lastDoc' = doc
    /\ kg' = add_document(kg, doc)
    /\ related' = NoQuery
    /\ similar' = NoSimilar
    /\ UNCHANGED <<envVars, poolVars, outVars, pc, parsed>>

Api_get_related_documents(path, depth) ==
    /\ pc = "api"
    /\ related' = [path |-> path, depth |-> depth,
                   result |-> get_related_documents(kg, path, depth)]
    /\ similar' = NoSimilar
    /\ UNCHANGED <<envVars, poolVars, outVars, pc, kg, calls, lastDoc, kgBefore,
                   parsed>>

NextKG ==
    \/ \E doc \in DocPool : Api_add_document(doc)
    \/ \E path \in QueryPaths, depth \in 0..MaxDepth :
            Api_get_related_documents(path, depth)

SpecKG == InitKG /\ [][NextKG]_vars

(***************************************************************************)
(* Library use of the parsers: get_parser and process_file called on       *)
(* files of every format, with each optional library present or missing.   *)
(***************************************************************************)
SampleNames ==
    {"notes.txt", "w.txt", "LICENSE", "conf.yaml", "bad.yml", "rec.yaml",
     "main.tf", "bad.tfvars", "c.json", "bad.json", "A.md", "B.md",
     "doc.MARKDOWN", "Dockerfile", "sub/DOCKERFILE", "ex.md", "fenced.md",
     "deep.tf"}

FileNames ==
    SampleNames \cup
    {"README.MD", "x.YML", "run.sh", "env.BASH", ".env", "a.tar.json",
     "Makefile", "dockerfile.txt", "x.dockerfile", "vars.TFVARS", "noext.",
     ".md", "B.Md", "s.zsh", "notes.TXT", "deep/dir.json/file", "dockerfile",
     ".JSON"}

\* what safe_read returns for each sample file
\* a string inside n lists
RECURSIVE Nested(_, _)
Nested(n, leaf) == IF n = 0 THEN leaf ELSE JList(<<Nested(n - 1, leaf)>>)

SampleContent(name) ==
    CASE name = "notes.txt" -> "see /etc/hosts\nhosts file"
      [] name = "w.txt" -> "alpha beta alpha\nalp http://x.io/a"
      [] name = "LICENSE" -> "MIT License, see docs/LICENSE.md"
      [] name = "conf.yaml" ->
            [valid |-> TRUE,
             data |-> JDict(<<JItem("a", JDict(<<JItem("b", JStr("hi"))>>)),
                              JItem("n", JList(<<JStr("x"),
                                                 JDict(<<JItem("k", JStr("y"))>>)>>))>>)]
      [] name = "bad.yml" -> [valid |-> FALSE, data |-> JNum]
      [] name = "rec.yaml" ->
            [valid |-> TRUE,
             data |-> JDict(<<JItem("k", JAlias), JItem("v", JStr("end"))>>)]
      [] name = "main.tf" ->
            [text |-> "name = \"web\"\nami = \"/img/a\"\n", valid |-> TRUE,
             data |-> JDict(<<JItem("name", JStr("web")),
                              JItem("ami", JStr("/img/a"))>>)]
      [] name = "deep.tf" ->
            [text |-> "a = \"early\"\nb = " \o Repeat("[", RecursionLimit + 1)
                      \o "\"deep\"" \o Repeat("]", RecursionLimit + 1) \o "\n",
             valid |-> TRUE,
             data |-> JDict(<<JItem("a", JStr("early")),
                              JItem("b", Nested(RecursionLimit + 1, JStr("deep")))>>)]
      [] name = "bad.tfvars" ->
            [text |-> "x = \"1\ny = \"two\"", valid |-> FALSE, data |-> JNum]
      [] name = "bad.json" -> [valid |-> FALSE, data |-> JNum]
      [] name = "doc.MARKDOWN" ->
            <<MdHeader(1, "Zeta"), MdLink("w", " https://w.org "),
              MdHeader(2, "Alpha "), MdLink("r", " ./B.md"),
              MdHeader(3, "Alpha"), MdLink("u", "HTTP://up.org")>>
      [] name = "ex.md" ->
            <<MdHeader(1, "Title"), MdCode("python", "print(1)\n"),
              MdLink("x", "other.md")>>
      [] name = "fenced.md" ->
            <<MdHeader(1, "Title"), MdCode("python", "# setup\nx = 1\n"),
              MdLink("x", "other.md"), MdHeader(2, "End")>>
      [] name = "sub/DOCKERFILE" -> Content("Dockerfile")
      [] OTHER -> Content(name)

SampleSize(name) ==
    CASE name \in {"notes.txt", "w.txt", "LICENSE"} -> Len(SampleContent(name))
      [] name = "conf.yaml" -> 29
      [] name = "bad.yml" -> 5
      [] name = "rec.yaml" -> 20
      [] name = "main.tf" -> 28
      [] name = "bad.tfvars" -> 16
      [] name = "deep.tf" -> Len(SampleContent(name).text)
      [] name = "bad.json" -> 6
      [] name \in {"doc.MARKDOWN", "ex.md", "fenced.md"} ->
            Len(MdRender(SampleContent(name)))
      [] name = "sub/DOCKERFILE" -> Size("Dockerfile")
      [] OTHER -> Size(name)

InitParse ==
    /\ HAS_YAML \in BOOLEAN
    /\ HAS_HCL \in BOOLEAN
    /\ HAS_NETWORKX \in BOOLEAN
    /\ fs = [root |-> Root, root_exists |-> TRUE, root_readable |-> TRUE,
             entries |-> TreeEntries,
             dirs |-> TreeDirs, read_failed |-> {}, stat_failed |-> {},
             unwritable |-> {}]
    /\ args = [formats |-> {"all"}, exclude |-> {}, include_exts |-> {},
               workers |-> MaxWorkers]
    /\ pc = "lib"
    /\ all_files = <<>>
    /\ futures = EmptyMap
    /\ results = EmptyMap
    /\ workers = [w \in Pool |-> Idle]
    /\ yielded = {}
    /\ cur = NoDoc
    /\ processed = 0
    /\ kg = KnowledgeGraph(HAS_NETWORKX)
    /\ written = {}
    /\ notices = {}
    /\ db = EmptyDb
    /\ kgAtOutput = KnowledgeGraph(HAS_NETWORKX)
    /\ calls = 0
    /\ lastDoc = NoDoc
    /\ kgBefore = KnowledgeGraph(HAS_NETWORKX)
    /\ related = NoQuery
    /\ parsed = NoParse
    /\ similar = NoSimilar
    /\ insights = NoInsights
    /\ gen = NoGen
    /\ cloud = NoCloud
    /\ disk = {}
    /\ post = NoPost

Lib_get_parser(name) ==
    /\ pc = "lib"
    /\ parsed' = [op |-> "get_parser", name |-> name, parser |-> get_parser(name),
                  doc |-> NoDoc, stdout |-> <<>>]
    /\ UNCHANGED <<envVars, poolVars, outVars, pc, kg, calls, lastDoc, kgBefore,
                   related, similar>>

Lib_process_file(name) ==
    /\ pc = "lib"
    /\ parsed' = [op |-> "process_file", name |-> name,
                  parser |-> get_parser(name),
                  doc |-> process_file(name, SampleContent(name), SampleSize(name)),
                  stdout |-> parse_stdout(get_parser(name), name, SampleContent(name))]
    /\ UNCHANGED <<envVars, poolVars, outVars, pc, kg, calls, lastDoc, kgBefore,
                   related, similar>>

NextParse ==
    \/ \E name \in FileNames : Lib_get_parser(name)
    \/ \E name \in SampleNames : Lib_process_file(name)

SpecParse == InitParse /\ [][NextParse]_vars

(***************************************************************************)
(* Library use of the token index: find_similar_tokens called on the       *)
(* KnowledgeGraph of some of the files of the tree, merged in some order.  *)
(***************************************************************************)
IngestOrders ==
    {<<>>, <<"A.md">>, <<"c.json">>, <<"A.md", "B.md">>, <<"B.md", "A.md">>,
     <<"c.json", "Dockerfile">>, <<"A.md", "B.md", "Dockerfile", "c.json">>,
     <<"c.json", "Dockerfile", "B.md", "A.md">>}

RECURSIVE Ingest(_, _)
Ingest(g, order) ==
    IF Len(order) = 0 THEN g
    ELSE Ingest(add_document(g, process_file(order[1], Content(order[1]),
                                             Size(order[1]))),
                Tail(order))

SimilarValues == {"title", "Title", "hit", "A.md", "", "c.jsonl"}
\* thresholds in tenths: 0.5, 0.8 (the default) and 0.9
Thresholds == {5, 8, 9}

InitSim ==
    /\ HAS_YAML = FALSE
    /\ HAS_HCL = FALSE
    /\ HAS_NETWORKX = FALSE
    /\ fs = [root |-> Root, root_exists |-> TRUE, root_readable |-> TRUE,
             entries |-> TreeEntries,
             dirs |-> TreeDirs, read_failed |-> {}, stat_failed |-> {},
             unwritable |-> {}]
    /\ args = [formats |-> {"all"}, exclude |-> {}, include_exts |-> {},
               workers |-> MaxWorkers]
    /\ pc = "index"
    /\ all_files = <<>>
    /\ futures = EmptyMap
    /\ results = EmptyMap
    /\ workers = [w \in Pool |-> Idle]
    /\ yielded = {}
    /\ cur = NoDoc
    /\ processed = 0
    /\ kg = KnowledgeGraph(HAS_NETWORKX)
    /\ written = {}
    /\ notices = {}
    /\ db = EmptyDb
    /\ kgAtOutput = KnowledgeGraph(HAS_NETWORKX)
    /\ calls = 0
    /\ lastDoc = NoDoc
    /\ kgBefore = kg
    /\ related = NoQuery
    /\ parsed = NoParse
    /\ similar = NoSimilar
    /\ insights = NoInsights
    /\ gen = NoGen
    /\ cloud = NoCloud
    /\ disk = {}
    /\ post = NoPost

\* the index is built by add_document calls, in one of the IngestOrders
Index_add_document(name) ==
    /\ pc = "index"
    /\ \E order \in IngestOrders :
        /\ Len(order) > Len(kg.doc_order)
        /\ SubSeq(order, 1, Len(kg.doc_order) + 1) = Append(kg.doc_order, name)
    /\ kg' = add_document(kg, process_file(name, Content(name), Size(name)))
    /\ kgBefore' = kg'
    /\ similar' = NoSimilar
    /\ UNCHANGED <<envVars, poolVars, outVars, pc, calls, lastDoc, related,
                   parsed>>

Api_find_similar_tokens(value, threshold) ==
    /\ pc = "index"
    /\ kgBefore' = kg
    /\ similar' = [value |-> value, threshold |-> threshold,
                   result |-> find_similar_tokens(kg, value, threshold)]
    /\ UNCHANGED <<envVars, poolVars, outVars, pc, kg, calls, lastDoc, related,
                   parsed>>

NextSim ==
    \/ \E name \in Parseable : Index_add_document(name)
    \/ \E value \in SimilarValues, threshold \in Thresholds :
        Api_find_similar_tokens(value, threshold)

SpecSim == InitSim /\ [][NextSim]_vars

(***************************************************************************)
(* The scan of main for the same tree under several roots and with         *)
(* several --exclude and --include-exts arguments.                         *)
(***************************************************************************)
Roots == {Root, "/home/u/.venv/repo", "/srv/node_modules/docs", "/data/site"}
ExcludeChoices == {{}, {"A."}, {"repo"}, {"json", "Docker"}}
IncludeExtsChoices == {{}, {".png"}, {"png"}}

InitScan ==
    /\ HAS_YAML = FALSE
    /\ HAS_HCL = FALSE
    /\ HAS_NETWORKX = FALSE
    /\ fs \in {[root |-> r, root_exists |-> TRUE, root_readable |-> TRUE,
                entries |-> TreeEntries, dirs |-> TreeDirs,
                read_failed |-> {}, stat_failed |-> {}, unwritable |-> {}] :
                    r \in Roots}
    /\ args \in {[formats |-> {"all"}, exclude |-> ex, include_exts |-> inc,
                  workers |-> MaxWorkers] :
                    ex \in ExcludeChoices, inc \in IncludeExtsChoices}
    /\ pc = "start"
    /\ all_files = <<>>
    /\ futures = EmptyMap
    /\ results = EmptyMap
    /\ workers = [w \in Pool |-> Idle]
    /\ yielded = {}
    /\ cur = NoDoc
    /\ processed = 0
    /\ kg = KnowledgeGraph(HAS_NETWORKX)
    /\ written = {}
    /\ notices = {}
    /\ db = EmptyDb
    /\ kgAtOutput = KnowledgeGraph(HAS_NETWORKX)
    /\ calls = 0
    /\ lastDoc = NoDoc
    /\ kgBefore = KnowledgeGraph(HAS_NETWORKX)
    /\ related = NoQuery
    /\ parsed = NoParse
    /\ similar = NoSimilar
    /\ insights = NoInsights
    /\ gen = NoGen
    /\ cloud = NoCloud
    /\ disk = {}
    /\ post = NoPost

NextScan ==
    \/ Main_Setup
    \/ Main_Scan

SpecScan == InitScan /\ [][NextScan]_vars

(***************************************************************************)
(* Several runs of main, one after the other, that write documents.db into *)
(* the same output directory.  Between two runs files may have been added  *)
(* to the tree or removed from it; kg is the graph of the latest run.      *)
(***************************************************************************)
InitStore ==
    /\ HAS_YAML = FALSE
    /\ HAS_HCL = FALSE
    /\ HAS_NETWORKX \in BOOLEAN
    /\ fs = [root |-> Root, root_exists |-> TRUE, root_readable |-> TRUE,
             entries |-> TreeEntries,
             dirs |-> TreeDirs, read_failed |-> {}, stat_failed |-> {},
             unwritable |-> {}]
    /\ args = [formats |-> {"sqlite"}, exclude |-> {}, include_exts |-> {},
               workers |-> MaxWorkers]
    /\ pc = "runs"
    /\ all_files = <<>>
    /\ futures = EmptyMap
    /\ results = EmptyMap
    /\ workers = [w \in Pool |-> Idle]
    /\ yielded = {}
    /\ cur = NoDoc
    /\ processed = 0
    /\ kg = KnowledgeGraph(HAS_NETWORKX)
    /\ written = {}
    /\ notices = {}
    /\ db = EmptyDb
    /\ kgAtOutput = KnowledgeGraph(HAS_NETWORKX)
    /\ calls = 0
    /\ lastDoc = NoDoc
    /\ kgBefore = KnowledgeGraph(HAS_NETWORKX)
    /\ related = NoQuery
    /\ parsed = NoParse
    /\ similar = NoSimilar
    /\ insights = NoInsights
    /\ gen = NoGen
    /\ cloud = NoCloud
    /\ disk = {}
    /\ post = NoPost

\* one whole run with --formats sqlite: a new KnowledgeGraph, the Documents
\* of the files merged in some order, write_sqlite on the store that is there
Run_write_sqlite(order) ==
    /\ pc = "runs"
    /\ calls < MaxRuns
    /\ calls' = calls + 1
    /\ kg' = Ingest(KnowledgeGraph(HAS_NETWORKX), order)
    /\ kgAtOutput' = kg'
    /\ db' = write_sqlite(db, kg')
    /\ written' = written \cup {OutputDir, Artifact("sqlite")}
    /\ UNCHANGED <<envVars, poolVars, pc, notices, insights, lastDoc, kgBefore,
                   related, parsed, similar>>

NextStore == \E order \in IngestOrders : Run_write_sqlite(order)

SpecStore == InitStore /\ [][NextStore]_vars

(***************************************************************************)
(* Library use of post_process_audio: any asset type, bitrate and target,  *)
(* with FFmpeg and the loudness library succeeding or failing.             *)
(***************************************************************************)
AssetTypes == {"sfx", "music", "voice"}
Bitrates == {192, 256}
NormalizeTargets == {NoNumber} \cup {Number(x) : x \in {0, -10, -30, -60, -160}}

InitPost ==
    /\ HAS_YAML = FALSE
    /\ HAS_HCL = FALSE
    /\ HAS_NETWORKX = FALSE
    /\ fs = [root |-> Root, root_exists |-> TRUE, root_readable |-> TRUE,
             entries |-> TreeEntries,
             dirs |-> TreeDirs, read_failed |-> {}, stat_failed |-> {},
             unwritable |-> {}]
    /\ args = [formats |-> {"all"}, exclude |-> {}, include_exts |-> {},
               workers |-> MaxWorkers]
    /\ pc = "post"
    /\ all_files = <<>>
    /\ futures = EmptyMap
    /\ results = EmptyMap
    /\ workers = [w \in Pool |-> Idle]
    /\ yielded = {}
    /\ cur = NoDoc
    /\ processed = 0
    /\ kg = KnowledgeGraph(HAS_NETWORKX)
    /\ written = {}
    /\ notices = {}
    /\ db = EmptyDb
    /\ kgAtOutput = KnowledgeGraph(HAS_NETWORKX)
    /\ calls = 0
    /\ lastDoc = NoDoc
    /\ kgBefore = KnowledgeGraph(HAS_NETWORKX)
    /\ related = NoQuery
    /\ parsed = NoParse
    /\ similar = NoSimilar
    /\ insights = NoInsights
    /\ gen = NoGen
    /\ cloud = NoCloud
    /\ disk = {}
    /\ post = NoPost

Call_post_process_audio(asset_type, bitrate_kbps, normalize_target) ==
    /\ pc = "post"
    /\ \E convert_ok, normalize_ok \in BOOLEAN :
        LET r == post_process_audio(asset_type, bitrate_kbps, normalize_target,
                                    convert_ok, normalize_ok)
        IN  post' = [asset_type |-> asset_type, bitrate_kbps |-> bitrate_kbps,
                     normalize_target |-> normalize_target,
                     convert_ok |-> convert_ok, normalize_ok |-> normalize_ok,
                     returned |-> r.returned, steps |-> r.steps]
    /\ UNCHANGED <<flagVars, fs, args, gen, cloud, disk, apiVars, poolVars,
                   outVars, pc, kg>>

NextPost ==
    \E asset_type \in AssetTypes, bitrate_kbps \in Bitrates,
       normalize_target \in NormalizeTargets :
        Call_post_process_audio(asset_type, bitrate_kbps, normalize_target)

SpecPost == InitPost /\ [][NextPost]_vars

(***************************************************************************)
(* One call of generate_assets on a new AudioGenerator: the filter, then   *)
(* the loop over the matching assets, then the summary.  The loop body is  *)
(* a skip, or the budget check of generate_sfx / generate_music followed,  *)
(* when it passed outside a dry run, by the generation itself.  What the   *)
(* service and FFmpeg answer is chosen when they are called.               *)
(***************************************************************************)
Filters ==
    { [NoFilter EXCEPT !.generate_all = TRUE],
      [NoFilter EXCEPT !.phase_filter = <<1>>],
      [NoFilter EXCEPT !.phase_filter = <<2>>],
      [NoFilter EXCEPT !.asset_id_filter = "music_menu"],
      [NoFilter EXCEPT !.asset_id_filter = "sfx_none"],
      NoFilter }

\* the output files that exist before the call
ExistingOutputs ==
    { {}, {"assets/sfx/jump.ogg"},
      {"assets/music/menu.ogg", "assets/sfx/land.ogg"} }

\* the balances the service may report
Balances == {5149, 5150, 5950}

\* --safety-margin
SafetyMargins == {DefaultSafetyMargin, 0}

FetchOutcomes == {Fetched(r) : r \in Balances} \cup {FetchFailed, FetchMalformed}

InitAudio ==
    /\ HAS_YAML = FALSE
    /\ HAS_HCL = FALSE
    /\ HAS_NETWORKX = FALSE
    /\ fs = [root |-> Root, root_exists |-> TRUE, root_readable |-> TRUE,
             entries |-> TreeEntries,
             dirs |-> TreeDirs, read_failed |-> {}, stat_failed |-> {},
             unwritable |-> {}]
    /\ args = [formats |-> {"all"}, exclude |-> {}, include_exts |-> {},
               workers |-> MaxWorkers]
    /\ pc = "generate_assets"
    /\ all_files = <<>>
    /\ futures = EmptyMap
    /\ results = EmptyMap
    /\ workers = [w \in Pool |-> Idle]
    /\ yielded = {}
    /\ cur = NoDoc
    /\ processed = 0
    /\ kg = KnowledgeGraph(HAS_NETWORKX)
    /\ written = {}
    /\ notices = {}
    /\ db = EmptyDb
    /\ kgAtOutput = KnowledgeGraph(HAS_NETWORKX)
    /\ calls = 0
    /\ lastDoc = NoDoc
    /\ kgBefore = KnowledgeGraph(HAS_NETWORKX)
    /\ related = NoQuery
    /\ parsed = NoParse
    /\ similar = NoSimilar
    /\ insights = NoInsights
    /\ \E dry_run \in BOOLEAN, filter \in Filters,
          safety_margin \in SafetyMargins :
        gen = [NoGen EXCEPT !.dry_run = dry_run, !.filter = filter,
                            !.safety_margin = safety_margin]
    /\ cloud = NoCloud
    /\ disk \in ExistingOutputs
    /\ post = NoPost

\* the asset the loop is at
CurrentAsset == Manifest[gen.assets_to_generate[gen.done + 1]]

\* generate_assets 256-269: the filter, and the early return
GenerateAssets_Filter ==
    /\ pc = "generate_assets"
    /\ gen' = [gen EXCEPT !.assets_to_generate = FilterAssets(gen.filter)]
    /\ pc' = IF FilterAssets(gen.filter) = <<>> THEN "returned" ELSE "loop"
    /\ UNCHANGED <<flagVars, fs, args, cloud, disk, post, apiVars, poolVars,
                   outVars, kg>>

\* generate_assets 284-293: an asset whose output file exists
GenerateAssets_Skip ==
    /\ pc = "loop"
    /\ gen.done < Len(gen.assets_to_generate)
    /\ CurrentAsset.output_path \in disk
    /\ gen' = [gen EXCEPT !.results.total_attempted = @ + 1,
                          !.results.total_skipped = @ + 1,
                          !.done = @ + 1]
    /\ UNCHANGED <<flagVars, fs, args, cloud, disk, post, apiVars, poolVars,
                   outVars, pc, kg>>

\* generate_assets 284-299 and generate_sfx 98-120 / generate_music 172-192:
\* the budget check; the loop body ends here (296-312) when the check did
\* not pass or in a dry run, and the call ends when the fetch raised past
\* check_budget
Generate_CheckBudget(fetch) ==
    /\ pc = "loop"
    /\ gen.done < Len(gen.assets_to_generate)
    /\ CurrentAsset.output_path \notin disk
    /\ cloud' = [cloud EXCEPT !.log = Append(@,
                    [request |-> UserInfoUrl, asset_id |-> CurrentAsset.id,
                     response |-> fetch])]
    /\ LET attempted == [gen EXCEPT !.results.total_attempted = @ + 1]
           check == check_budget(gen.safety_margin, fetch,
                                 CurrentAsset.duration_seconds,
                                 GeneratedAs(CurrentAsset), CurrentAsset.id)
       IN  IF fetch.status = "AttributeError"
           THEN /\ gen' = attempted
                /\ pc' = "raised"
           ELSE IF ~check.can_proceed \/ gen.dry_run
           THEN /\ gen' = [attempted EXCEPT
                             !.check = check,
                             !.results = Track(@, CurrentAsset.id,
                                               check.can_proceed),
                             !.done = @ + 1]
                /\ pc' = "loop"
           ELSE /\ gen' = [attempted EXCEPT !.check = check]
                /\ pc' = "generate"
    /\ UNCHANGED <<flagVars, fs, args, disk, post, apiVars, poolVars, outVars,
                   kg>>

\* generate_sfx 122-160 / generate_music 194-237 and generate_assets 301-312:
\* the client calls (made requests are sent, the last of them failing when
\* ~api_ok), the raw file, the post-processing, the credits, the tracking
Generate_Call(made, api_ok, write_ok, convert_ok, normalize_ok) ==
    /\ pc = "generate"
    /\ LET asset == CurrentAsset
           asset_type == GeneratedAs(asset)
           all_calls == GenerationCalls(asset_type)
           raw_mp3_path == RawMp3Path(asset.output_path)
           wrote == api_ok /\ write_ok
           processed_ == post_process_audio(
                            asset_type,
                            IF asset_type = "music" THEN 256 ELSE 192,
                            Number(IF asset_type = "music"
                                   THEN DefaultLoudnessLufs
                                   ELSE DefaultPeakDbfs),
                            convert_ok, normalize_ok)
           success == wrote /\ processed_.returned
       IN  /\ made \in 1..Len(all_calls)
           /\ api_ok => made = Len(all_calls)
           /\ cloud' = [cloud EXCEPT !.log = @ \o
                          [k \in 1..made |->
                             [request |-> all_calls[k], asset_id |-> asset.id,
                              response |-> IF k < made \/ api_ok
                                           THEN "ok" ELSE "error"]]]
           /\ disk' = disk \cup (IF wrote THEN {raw_mp3_path} ELSE {})
                           \cup (IF wrote /\ convert_ok
                                 THEN {asset.output_path} ELSE {})
           /\ post' = IF wrote
                      THEN [asset_type |-> asset_type,
                            bitrate_kbps |-> IF asset_type = "music"
                                             THEN 256 ELSE 192,
                            normalize_target |->
                                Number(IF asset_type = "music"
                                       THEN DefaultLoudnessLufs
                                       ELSE DefaultPeakDbfs),
                            convert_ok |-> convert_ok,
                            normalize_ok |-> normalize_ok,
                            returned |-> processed_.returned,
                            steps |-> processed_.steps]
                      ELSE post
           /\ gen' = [gen EXCEPT
                        !.results = Track(
                            [@ EXCEPT !.total_credits_used =
                                IF success THEN @ + gen.check.estimated_cost
                                ELSE @],
                            asset.id, success),
                        !.done = @ + 1]
    /\ pc' = "loop"
    /\ UNCHANGED <<flagVars, fs, args, apiVars, poolVars, outVars, kg>>

\* generate_assets 314-332: the summary, and the results file
GenerateAssets_Finish ==
    /\ pc = "loop"
    /\ gen.done = Len(gen.assets_to_generate)
    /\ disk' = IF gen.dry_run THEN disk ELSE disk \cup {ResultsFile}
    /\ pc' = "returned"
    /\ UNCHANGED <<flagVars, fs, args, gen, cloud, post, apiVars, poolVars,
                   outVars, kg>>

NextAudio ==
    \/ GenerateAssets_Filter
    \/ GenerateAssets_Skip
    \/ \E fetch \in FetchOutcomes : Generate_CheckBudget(fetch)
    \/ \E made \in 1..2, api_ok, write_ok, convert_ok, normalize_ok \in BOOLEAN :
        Generate_Call(made, api_ok, write_ok, convert_ok, normalize_ok)
    \/ GenerateAssets_Finish

SpecAudio == InitAudio /\ [][NextAudio]_vars

(***************************************************************************)
(* Properties.                                                             *)
(***************************************************************************)
AfterIngestion == pc \in AllFormats \cup {"exit_0", "crash_output"}

\* the eligible files that can be read: none under a root that cannot be listed
Readable == (IF fs.root_readable THEN Parseable ELSE {}) \ fs.read_failed

\* C1: once the ingestion of a run is complete, whatever the completion order
\* of the pool, documents holds exactly one Document for each eligible file of
\* the tree whose read succeeded, and no entry for any other file.
C1_OneDocumentPerReadableFile ==
    AfterIngestion =>
        /\ DOMAIN kg.documents = Readable
        /\ \A p \in DOMAIN kg.documents :
                kg.documents[p] = process_file(p, Content(p), Size(p))
        /\ SeqRange(kg.doc_order) = DOMAIN kg.documents
        /\ Len(kg.doc_order) = Cardinality(DOMAIN kg.documents)
        /\ processed = Cardinality(DOMAIN kg.documents)

\* a finished run in which the read of B.md failed and the last file of the
\* enumeration was merged first
C1_Witness ==
    /\ pc = "exit_0"
    /\ fs.read_failed = {"B.md"}
    /\ Len(kg.doc_order) = 3
    /\ kg.doc_order[1] = "c.json"

\* C2: the KnowledgeGraph changes only in steps of main, never in a step of a
\* pool process, and during ingestion only in main's single add_document step,
\* so no two add_document calls are ever in progress together.
C2_SingleWriter ==
    [][kg' # kg =>
        /\ UNCHANGED <<workers, futures, results>>
        /\ pc' # pc
        /\ pc \notin AllFormats => (pc = "merge" /\ kg' = add_document(kg, cur))]_vars

\* main is inside add_document while a pool process is running process_file
C2_Witness ==
    /\ pc = "merge"
    /\ DOMAIN kg.documents # {}
    /\ \E w \in Pool : workers[w] # Idle

TokensOfFile(index, p) ==
    UNION {{<<v, i>> : i \in {j \in 1..Len(index[v]) : index[v][j].file = p}} :
            v \in DOMAIN index}

\* C3: add_document is idempotent per relative_path: a call with the Document
\* that documents already holds for that path leaves the KnowledgeGraph as it
\* was, and after any call the state reflects, for each path, only the last
\* Document added for it (its tokens, its links and its edges).
C3_AddDocumentIdempotent ==
    /\ (/\ lastDoc.relative_path \in DOMAIN kgBefore.documents
        /\ kgBefore.documents[lastDoc.relative_path] = lastDoc)
            => kg = kgBefore
    /\ \A p \in DOMAIN kg.documents :
        /\ Cardinality(TokensOfFile(kg.token_index, p)) = Len(kg.documents[p].tokens)
        /\ (IF p \in DOMAIN kg.file_relationships
            THEN kg.file_relationships[p] ELSE {}) = kg.documents[p].links
        /\ Successors(kg.graph, p) \subseteq kg.documents[p].links

\* C4: no key of token_index is the empty string.
C4_NoEmptyTokenKey == "" \notin DOMAIN kg.token_index

\* C5: a failure while one file is processed (its read fails, or its worker
\* raises) never ends the run: main does not leave the pool by an exception.
C5_FileFailureNotFatal == pc # "crash_pool"

\* C6: when the run has ended, every selected writer that did not itself fail
\* and was not unavailable has written its artifact.
C6_OtherWritersStillRun ==
    pc \in {"exit_0", "crash_output"} =>
        \A f \in AllFormats :
            (/\ Selected(f)
             /\ Artifact(f) \notin fs.unwritable
             /\ ~(f = "graphml" /\ ~HAS_NETWORKX))
                => Artifact(f) \in written

\* C7: no writer changes the KnowledgeGraph: throughout the output stage it
\* is what it was when the stage began.
C7_WritersDoNotMutate == AfterIngestion => kg = kgAtOutput

\* the pairs (a, b) with a directed path of one or more edges from a to b
RECURSIVE Closure(_, _, _)
Closure(R, nodes, via) ==
    IF via = {} THEN R
    ELSE LET k == CHOOSE n \in via : TRUE
         IN  Closure(R \cup {ab \in nodes \X nodes :
                                <<ab[1], k>> \in R /\ <<k, ab[2]>> \in R},
                     nodes, via \ {k})

Paths(graph) ==
    Closure({<<e.src, e.dst>> : e \in graph.edges}, graph.nodes, graph.nodes)

Connected(graph, path) ==
    {n \in graph.nodes : <<path, n>> \in Paths(graph) \/ <<n, path>> \in Paths(graph)}

HasEdges(g, path) ==
    \/ path \in DOMAIN g.file_relationships
    \/ \E s \in DOMAIN g.file_relationships : path \in g.file_relationships[s]

DirectTargets(g, path) ==
    IF path \in DOMAIN g.file_relationships THEN g.file_relationships[path] ELSE {}

\* C8 as stated: with the graph engine the result is the set of nodes that
\* reach or are reachable from path along directed edges, whatever the depth;
\* without it the direct outgoing targets; empty for a path with no edges.
C8_RelatedAsStated ==
    related.path # None =>
        /\ kg.graph.present => related.result = Connected(kg.graph, related.path)
        /\ ~kg.graph.present => related.result = DirectTargets(kg, related.path)
        /\ ~HasEdges(kg, related.path) => related.result = {}

\* C8 as amended: with the graph engine the result is the set of nodes other
\* than path itself that reach or are reachable from path, whatever the depth
\* (a path on a cycle, or linking to itself, is not in its own result);
\* without it the direct outgoing targets, path itself included when it links
\* to itself; empty for a path with no edges.
C8_RelatedExcludesSelf ==
    related.path # None =>
        /\ kg.graph.present =>
                related.result = Connected(kg.graph, related.path) \ {related.path}
        /\ ~kg.graph.present => related.result = DirectTargets(kg, related.path)
        /\ ~HasEdges(kg, related.path) => related.result = {}

\* a query at depth 1, with the graph engine, for a path that lies on a cycle
\* and has a node two edges away
C8_Witness ==
    /\ related.path = "B.md"
    /\ related.depth = 1
    /\ kg.graph.present
    /\ <<"B.md", "B.md">> \in Paths(kg.graph)
    /\ "missing.md" \in related.result

\* C9: every key of relationships is the relative_path of a Document of
\* documents, in the graph and in the store written from it; targets are free.
C9_RelationshipSourcesAreDocuments ==
    /\ DOMAIN kg.file_relationships \subseteq DOMAIN kg.documents
    /\ \A r \in db.relationships : r[1] \in DOMAIN db.documents

\* the store holds a relationship whose target is no document
C9_Witness ==
    /\ <<"A.md", "missing.md">> \in db.relationships
    /\ "missing.md" \notin DOMAIN db.documents
    /\ "missing.md" \in kg.file_relationships["A.md"]

\* C10: a link of a merged Document to a file that was not ingested is a
\* relationship target and no documents key, and the broken references the
\* reporting tool computes from the store of the run are exactly the
\* relationship pairs of the graph whose target is no document's path.
C10_BrokenReferences ==
    /\ \A p \in DOMAIN kg.documents : \A l \in kg.documents[p].links :
            l \notin {r \in DOMAIN results : results[r].kind = "doc"} =>
                /\ p \in DOMAIN kg.file_relationships
                /\ l \in kg.file_relationships[p]
                /\ l \notin DOMAIN kg.documents
    /\ insights.ran =>
            insights.broken_references =
                {r \in RelationshipRows(kgAtOutput) :
                    r[2] \notin DOMAIN kgAtOutput.documents}

\* the report lists A.md -> missing.md, and B.md's link to A.md is not broken
C10_Witness ==
    /\ insights.ran
    /\ <<"A.md", "missing.md">> \in insights.broken_references
    /\ "B.md" \in DOMAIN kg.documents
    /\ <<"B.md", "A.md">> \notin insights.broken_references

\* C11: the orphan set the reporting tool computes holds a document path if
\* and only if the path is in neither column of the relationships table; a
\* document with an outgoing link, and a document that another document
\* links to by its relative_path, is never in it.
C11_OrphansAsStated ==
    insights.ran =>
        /\ insights.orphaned_files \subseteq DOMAIN db.documents
        /\ \A p \in DOMAIN db.documents :
                p \in insights.orphaned_files <=>
                    ~\E r \in db.relationships : r[1] = p \/ r[2] = p
        /\ \A p \in DOMAIN kg.documents :
                (\/ kg.documents[p].links # {}
                 \/ \E q \in DOMAIN kg.documents \ {p} : p \in kg.documents[q].links)
                    => p \notin insights.orphaned_files

\* the read of B.md failed, so nothing links to c.json: the report lists
\* c.json alone, and neither A.md (no document links to it, it links out) nor
\* the Dockerfile (outgoing link only)
C11_Witness ==
    /\ insights.ran
    /\ fs.read_failed = {"B.md"}
    /\ insights.orphaned_files = {"c.json"}
    /\ {"A.md", "Dockerfile"} \subseteq DOMAIN db.documents

\* C16: a run whose root does not exist or cannot be read ends with an error
\* status: it never creates the output directory or an artifact and never
\* ends with status 0.
C16_BadRootAborts ==
    (~fs.root_exists \/ ~fs.root_readable) =>
        /\ written = {}
        /\ pc # "exit_0"
        /\ all_files = <<>>

\* the places of the URL and PATH matches in the text of a file
CapturedSpans(content) ==
    {[first |-> m.start, last |-> m.start + Len(m.group) - 1] :
        m \in SeqRange(finditer("URL", content, 1))
              \cup SeqRange(finditer("PATH", content, 1))}

\* the number of characters of the text before line i
RECURSIVE LineOffset(_, _)
LineOffset(lines, i) ==
    IF i = 1 THEN 0 ELSE LineOffset(lines, i - 1) + Len(lines[i - 1]) + 1

\* C12: in a file the generic tokenizer parses, every word match yields a
\* WORD token at its line and column unless that very occurrence lies inside
\* a match already captured as a URL or a path.
C12_StandaloneWordKept ==
    (parsed.op = "process_file" /\ parsed.parser = "TextParser") =>
        LET content == SampleContent(parsed.name)
            lines == splitlines(content)
        IN  \A i \in 1..Len(lines) :
                \A m \in SeqRange(finditer("TOKEN", lines[i], 1)) :
                    LET first == LineOffset(lines, i) + m.start
                        last == first + Len(m.group) - 1
                    IN  (~\E sp \in CapturedSpans(content) :
                                sp.first <= first /\ last <= sp.last)
                        => \E t \in SeqRange(parsed.doc.tokens) :
                                /\ t.token_type = "word"
                                /\ t.value = m.group
                                /\ t.line = i
                                /\ t.col = m.start

\* C13: with the YAML library missing, a YAML file yields no tokens and a
\* notice is printed; with the HCL library missing, a Terraform file yields
\* the tokens of the regex fallback.
C13_MissingLibrarySurfaced ==
    parsed.op = "process_file" =>
        /\ (parsed.parser = "YAMLParser" /\ ~HAS_YAML) =>
                /\ parsed.doc.tokens = <<>>
                /\ parsed.stdout # <<>>
        /\ (parsed.parser = "HCLParser" /\ ~HAS_HCL) =>
                parsed.doc.tokens =
                    HCLParser_fallback_parse(parsed.name, SampleContent(parsed.name).text)

\* the load or the tree walk of the latest parse failed
ParseFailed ==
    LET content == SampleContent(parsed.name)
    IN  \/ parsed.parser = "JSONParser" /\ ~content.valid
        \/ /\ parsed.parser = "YAMLParser"
           /\ HAS_YAML
           /\ \/ ~content.valid
              \/ Raises(YAMLParser_walk(parsed.name, content.data, content.data, <<>>, 1))

\* C14: when the content of a YAML or JSON file fails to parse, or the tree
\* walk fails, the parser returns no token for the file and prints a warning.
C14_ParseFailureYieldsNoTokens ==
    (/\ parsed.op = "process_file"
     /\ parsed.parser \in {"YAMLParser", "JSONParser"}
     /\ ParseFailed)
        => /\ parsed.doc.tokens = <<>>
           /\ parsed.stdout # <<>>

\* C15: get_parser gives one parser class for every file name: that of a
\* registry key equal to the file name up to case if there is one, otherwise
\* that of a registry key equal to the extension up to case if there is one,
\* otherwise the generic text tokenizer.
C15_ParserSelection ==
    parsed.op # None =>
        LET byName == {k \in DOMAIN PARSER_REGISTRY :
                            Lower(k) = Lower(PathName(parsed.name))}
            byExt == {k \in DOMAIN PARSER_REGISTRY :
                            /\ PathSuffix(parsed.name) # ""
                            /\ Lower(k) = Lower(PathSuffix(parsed.name))}
        IN  /\ parsed.parser \in {PARSER_REGISTRY[k] : k \in DOMAIN PARSER_REGISTRY}
            /\ \A k \in byName : parsed.parser = PARSER_REGISTRY[k]
            /\ byName = {} => \A k \in byExt : parsed.parser = PARSER_REGISTRY[k]
            /\ (byName = {} /\ byExt = {}) => parsed.parser = "TextParser"

\* a file named DOCKERFILE in a subdirectory, which has no extension, gets the
\* Dockerfile parser and its three tokens
C15_Witness ==
    /\ parsed.op = "process_file"
    /\ parsed.name = "sub/DOCKERFILE"
    /\ parsed.parser = "DockerfileParser"
    /\ Len(parsed.doc.tokens) = 3

\* C17: the links of every Document are exactly the stripped values of its
\* REFERENCE and URL tokens that are not empty and do not start with http://
\* or https://; no link, and no relationship target made from it, starts with
\* a web scheme.
C17_LinksAsStated ==
    parsed.op = "process_file" =>
        LET d == parsed.doc
            refs == {i \in 1..Len(d.tokens) :
                        d.tokens[i].token_type \in {"reference", "url"}}
            rel == add_document(KnowledgeGraph(FALSE), d).file_relationships
        IN  /\ \A i \in refs :
                    LET l == Strip(d.tokens[i].value)
                    IN  l \in d.links <=>
                            (l # "" /\ ~StartsWith(l, "http://") /\ ~StartsWith(l, "https://"))
            /\ \A l \in d.links : \E i \in refs : l = Strip(d.tokens[i].value)
            /\ \A l \in d.links \cup UNION {rel[s] : s \in DOMAIN rel} :
                    ~StartsWith(l, "http://") /\ ~StartsWith(l, "https://")

\* a Markdown file with a web link written with spaces around it, a relative
\* link written with a space before it and a link with a scheme in capitals
C17_Witness ==
    /\ parsed.op = "process_file"
    /\ parsed.name = "doc.MARKDOWN"
    /\ \E i \in 1..Len(parsed.doc.tokens) :
            parsed.doc.tokens[i].value = " https://w.org "
    /\ parsed.doc.links = {"./B.md", "HTTP://up.org"}

\* the index in tokens of the k-th HEADER token
HeaderIndex(tokens, k) ==
    CHOOSE i \in 1..Len(tokens) :
        /\ tokens[i].token_type = "header"
        /\ Cardinality({j \in 1..i : tokens[j].token_type = "header"}) = k

\* the stripped texts of those of the lines that have the form of a header
RECURSIVE HeaderTexts(_)
HeaderTexts(lines) ==
    IF Len(lines) = 0 THEN <<>>
    ELSE (IF MarkdownParser_HEADER(lines[1], 1) = Len(lines[1]) /\ Len(lines[1]) > 0
          THEN <<Strip(SubSeq(lines[1], RunEnd(lines[1], 1, "#") + 1, Len(lines[1])))>>
          ELSE <<>>)
         \o HeaderTexts(Tail(lines))

\* the stripped texts of the lines of a Markdown file that have the form of
\* a header, those inside a fenced block among them, from top to bottom
RECURSIVE HeadersOfFile(_)
HeadersOfFile(content) ==
    IF Len(content) = 0 THEN <<>>
    ELSE (CASE content[1].el = "header" -> <<Strip(content[1].text)>>
            [] content[1].el = "code" -> HeaderTexts(splitlines(content[1].target))
            [] OTHER -> <<>>)
         \o HeadersOfFile(Tail(content))

\* C18: the headers of every Document are the values of its HEADER tokens, in
\* the order of tokens, which for a Markdown file is the order of the headers
\* in the file.
C18_HeadersInOrder ==
    parsed.op = "process_file" =>
        LET d == parsed.doc
        IN  /\ Len(d.headers) =
                    Cardinality({i \in 1..Len(d.tokens) : d.tokens[i].token_type = "header"})
            /\ \A k \in 1..Len(d.headers) :
                    d.headers[k] = d.tokens[HeaderIndex(d.tokens, k)].value
            /\ parsed.parser = "MarkdownParser" =>
                    d.headers = HeadersOfFile(SampleContent(parsed.name))

\* a Markdown file with three headers that are not in alphabetical order, two
\* of them with the same text, and links between them
C18_Witness ==
    /\ parsed.op = "process_file"
    /\ parsed.name = "doc.MARKDOWN"
    /\ parsed.doc.headers = <<"Zeta", "Alpha", "Alpha">>
    /\ Len(parsed.doc.tokens) > 3

\* the keys at or above the threshold when the strings are compared as given
SimilarKeys(index, value, threshold, folded) ==
    {k \in DOMAIN index :
        /\ k # value
        /\ IF folded THEN ratio_at_least(Lower(value), Lower(k), threshold)
           ELSE ratio_at_least(value, k, threshold)}

\* C19 as stated: the result of find_similar holds exactly the keys of
\* token_index, other than value, whose similarity ratio to value is at or
\* above the threshold; it holds no key twice, and the call leaves the index
\* as it was.
C19_SimilarAsStated ==
    similar.value # None =>
        /\ SeqRange(similar.result)
                = SimilarKeys(kg.token_index, similar.value, similar.threshold, FALSE)
        /\ Len(similar.result) = Cardinality(SeqRange(similar.result))
        /\ kg = kgBefore

\* C19 as amended: the result holds exactly the keys of token_index, other
\* than value as written, whose similarity ratio to value is at or above the
\* threshold once both strings are put in lower case (so a key that differs
\* from value only in case is returned at every threshold); it never holds
\* value, a string that is no key, or a key twice, and the call leaves the
\* index as it was.
C19_SimilarCaseFolded ==
    similar.value # None =>
        /\ SeqRange(similar.result)
                = SimilarKeys(kg.token_index, similar.value, similar.threshold, TRUE)
        /\ similar.value \notin SeqRange(similar.result)
        /\ SeqRange(similar.result) \subseteq DOMAIN kg.token_index
        /\ Len(similar.result) = Cardinality(SeqRange(similar.result))
        /\ kg = kgBefore

\* a query for title at threshold 0.9 on an index that holds Title (whose
\* ratio to title is 0.8 as written) and other keys
C19_Witness ==
    /\ similar.value = "title"
    /\ similar.threshold = 9
    /\ similar.result = <<"Title">>
    /\ Cardinality(DOMAIN kg.token_index) > 10

\* The parsed tree seen from outside the walk.  A position is the sequence
\* of child indices that leads from the root to a node.
RECURSIVE Positions(_)
Positions(node) ==
    {<<>>} \cup UNION {{<<i>> \o q : q \in Positions(IF node.t = "dict"
                                                      THEN node.items[i].v
                                                      ELSE node.items[i])}
                       : i \in 1..Len(node.items)}

RECURSIVE NodeAt(_, _)
NodeAt(node, pos) ==
    IF Len(pos) = 0 THEN node
    ELSE NodeAt(IF node.t = "dict" THEN node.items[pos[1]].v
                ELSE node.items[pos[1]], Tail(pos))

\* the path segments of a position: the key under a mapping, [i] counted
\* from zero under a sequence
RECURSIVE Segments(_, _)
Segments(node, pos) ==
    IF Len(pos) = 0 THEN <<>>
    ELSE IF node.t = "dict"
         THEN <<node.items[pos[1]].k>> \o Segments(node.items[pos[1]].v, Tail(pos))
         ELSE <<"[" \o ToString(pos[1] - 1) \o "]">>
              \o Segments(node.items[pos[1]], Tail(pos))

Parent(pos) == SubSeq(pos, 1, Len(pos) - 1)

IsPrefixOf(p, q) == Len(p) <= Len(q) /\ SubSeq(q, 1, Len(p)) = p

\* document order of positions
Before(p, q) ==
    \/ p # q /\ IsPrefixOf(p, q)
    \/ \E i \in 1..Min(Len(p), Len(q)) :
            /\ SubSeq(p, 1, i - 1) = SubSeq(q, 1, i - 1)
            /\ p[i] < q[i]

\* what the tree holds: a key for every entry of a mapping (placed at the
\* position of the entry's value), a value for every string scalar
TreeEvents(root) ==
    {[pos |-> p, kind |-> "key"] :
        p \in {q \in Positions(root) : q # <<>> /\ NodeAt(root, Parent(q)).t = "dict"}}
    \cup {[pos |-> p, kind |-> "value"] :
        p \in {q \in Positions(root) : NodeAt(root, q).t = "str"}}

EventBefore(e, f) ==
    \/ Before(e.pos, f.pos)
    \/ e.pos = f.pos /\ e.kind = "key" /\ f.kind = "value"

\* the token an entry or scalar of the tree is to give
EventToken(fp, root, e) ==
    IF e.kind = "key"
    THEN [token_type |-> "key",
          value |-> NodeAt(root, Parent(e.pos)).items[e.pos[Len(e.pos)]].k,
          context |-> Join(".", Segments(root, Parent(e.pos)))]
    ELSE [token_type |-> "value", value |-> NodeAt(root, e.pos).s,
          context |-> Join(".", Segments(root, e.pos))]

\* a JSON or YAML sample that was loaded and walked to the end
WalkedTree ==
    /\ parsed.op = "process_file"
    /\ parsed.parser \in {"JSONParser", "YAMLParser"}
    /\ parsed.parser = "YAMLParser" => HAS_YAML
    /\ SampleContent(parsed.name).valid
    /\ parsed.stdout = <<>>

\* C20: when a JSON or YAML file is loaded and walked, its tokens are, one
\* for one, the entries and string scalars of the tree: a KEY token for each
\* mapping entry with the dotted path of the mapping as context, a VALUE
\* token for each string scalar with its own dotted path as context, a child
\* of a sequence adding the segment [i]; the tokens come in document order,
\* so each KEY token precedes every token of its subtree; and the mapping
\* a -> (b -> "hi") at the head of c.json gives KEY a, KEY b (context a),
\* VALUE hi (context a.b) in that order.
C20_TreeWalkTokens ==
    WalkedTree =>
        LET root == SampleContent(parsed.name).data
            tokens == parsed.doc.tokens
            events == TreeEvents(root)
            rank(e) == 1 + Cardinality({f \in events : EventBefore(f, e)})
        IN  /\ Len(tokens) = Cardinality(events)
            /\ \A e \in events :
                    LET t == tokens[rank(e)]
                        x == EventToken(parsed.name, root, e)
                    IN  /\ t.token_type = x.token_type
                        /\ t.value = x.value
                        /\ t.context = x.context
                        /\ t.file = parsed.name
            /\ \A e, f \in events :
                    (e.kind = "key" /\ e # f /\ IsPrefixOf(e.pos, f.pos))
                        => rank(e) < rank(f)
            /\ parsed.name = "c.json" =>
                    /\ <<tokens[1].token_type, tokens[1].value>> = <<"key", "a">>
                    /\ <<tokens[2].token_type, tokens[2].value, tokens[2].context>>
                            = <<"key", "b", "a">>
                    /\ <<tokens[3].token_type, tokens[3].value, tokens[3].context>>
                            = <<"value", "hi", "a.b">>

\* a YAML file walked with the library present: a mapping inside a sequence
\* inside a mapping, whose scalar has the path n.[1].k
C20_Witness ==
    /\ WalkedTree
    /\ parsed.name = "conf.yaml"
    /\ Len(parsed.doc.tokens) = 7
    /\ \E i \in 1..Len(parsed.doc.tokens) :
            /\ parsed.doc.tokens[i].token_type = "value"
            /\ parsed.doc.tokens[i].value = "y"
            /\ parsed.doc.tokens[i].context = "n.[1].k"

\* the (source, target) pairs of the relationships map
RelationshipPairs(rel) == UNION {{<<s, t>> : t \in rel[s]} : s \in DOMAIN rel}

\* C27: with the graph engine present, in every state of the Knowledge
\* Graph the edges of the directed graph are exactly the pairs (s, t) with
\* t in relationships[s], every edge is labelled references, graph_edges
\* equals total_relationships, and for every path the direct outgoing
\* targets the fallback would answer with are the graph's successors of it.
C27_GraphMirrorsRelationships ==
    kg.graph.present =>
        /\ {<<e.src, e.dst>> : e \in kg.graph.edges}
                = RelationshipPairs(kg.file_relationships)
        /\ \A e \in kg.graph.edges : e.relation = "references"
        /\ get_statistics(kg).graph_edges = get_statistics(kg).total_relationships
        /\ \A path \in QueryPaths \cup kg.graph.nodes :
                (IF path \in DOMAIN kg.file_relationships
                 THEN kg.file_relationships[path] ELSE {})
                    = Successors(kg.graph, path)

\* a graph with the engine present that holds several documents' edges,
\* among them a link of a document to itself and a link to a missing file
C27_Witness ==
    /\ kg.graph.present
    /\ get_statistics(kg).graph_edges >= 4
    /\ <<"B.md", "B.md">> \in RelationshipPairs(kg.file_relationships)
    /\ \E e \in kg.graph.edges : e.dst \notin DOMAIN kg.documents

\* lines 741-749: the example location write_frequency_csv gives for a value
frequency_example(g, value) == g.token_index[value][1].file

\* the number of times each element occurs in a sequence
Multiset(seq) ==
    [x \in SeqRange(seq) |-> Cardinality({i \in 1..Len(seq) : seq[i] = x})]

\* what a KnowledgeGraph holds when the order of insertion is left aside
Unordered(g) ==
    [documents |-> g.documents,
     document_keys |-> SeqRange(g.doc_order),
     file_relationships |-> g.file_relationships,
     graph |-> g.graph,
     token_keys |-> SeqRange(g.token_keys),
     token_index |-> [v \in DOMAIN g.token_index |-> Multiset(g.token_index[v])]]

\* the files of all_files that were read, in the order of submission
RECURSIVE ReadInOrder(_)
ReadInOrder(files) ==
    IF Len(files) = 0 THEN <<>>
    ELSE (IF files[1] \in fs.read_failed THEN <<>> ELSE <<files[1]>>)
         \o ReadInOrder(Tail(files))

PoolFinished == pc \in AllFormats \cup {"exit_0", "crash_output"}

\* C26: whatever order the workers complete in, the Knowledge Graph the run
\* ends ingestion with is, order of insertion aside, the graph obtained by
\* adding the Documents of the files read in the order of submission: the
\* same documents, the same relationships (and graph), and for each token
\* value the same occurrences, each as many times.
C26_CompletionOrderIrrelevant ==
    PoolFinished =>
        Unordered(kgAtOutput)
            = Unordered(Ingest(KnowledgeGraph(HAS_NETWORKX), ReadInOrder(all_files)))

\* a run that merged the files in another order than they were submitted in:
\* the graphs agree but for the order, and the example location of Title in
\* the frequency table differs
C26_Witness ==
    /\ PoolFinished
    /\ Cardinality(DOMAIN kgAtOutput.documents) >= 3
    /\ kgAtOutput.doc_order # ReadInOrder(all_files)
    /\ frequency_example(kgAtOutput, "Title")
            # frequency_example(Ingest(KnowledgeGraph(HAS_NETWORKX),
                                       ReadInOrder(all_files)), "Title")

\* the number of header lines of a Markdown file that are outside its
\* fenced blocks
RECURSIVE HeaderLinesOutsideFences(_)
HeaderLinesOutsideFences(content) ==
    IF Len(content) = 0 THEN 0
    ELSE (IF content[1].el = "header" THEN 1 ELSE 0)
         + HeaderLinesOutsideFences(Tail(content))

TokensOfType(tokens, type) ==
    SelectSeq(tokens, LAMBDA t : t.token_type = type)

\* the example of C21: the file of a header line Title, a fenced block
\* tagged python and a link [x](other.md)
MarkdownExampleAsStated ==
    (parsed.op = "process_file" /\ parsed.name = "ex.md") =>
        LET tokens == parsed.doc.tokens
            h == TokensOfType(tokens, "header")
            c == TokensOfType(tokens, "code_block")
            r == TokensOfType(tokens, "reference")
        IN  /\ Len(h) = 1 /\ h[1].value = "Title" /\ h[1].context = "level_1"
            /\ Len(c) = 1 /\ c[1].context = "python"
            /\ Len(r) = 1 /\ r[1].value = "other.md" /\ r[1].context = "x"
            /\ "other.md" \in parsed.doc.links

\* C21: the file of the example gives exactly one HEADER token (Title,
\* level_1), one CODE_BLOCK token (python) and one REFERENCE token (other.md,
\* x), with other.md among the links of its Document; and for every Markdown
\* file the number of HEADER tokens is the number of its header lines that
\* are outside fenced blocks.
C21_MarkdownTokens ==
    /\ MarkdownExampleAsStated
    /\ (parsed.op = "process_file" /\ parsed.parser = "MarkdownParser") =>
            Len(TokensOfType(parsed.doc.tokens, "header"))
                = HeaderLinesOutsideFences(SampleContent(parsed.name))

\* the library path of the latest HCL parse was taken and failed
HclLibraryFailed ==
    LET content == SampleContent(parsed.name)
    IN  /\ HAS_HCL
        /\ \/ ~content.valid
           \/ Raises(HCLParser_extract_literals(parsed.name, content.data, 1))

\* C29: the tokens of a Terraform file are either all VALUE tokens, when the
\* library is present and its parse and the extraction succeeded, or exactly
\* the QUOTED_STRING tokens of the regex fallback, when the library is missing
\* or its path failed; tokens collected before the failure are not among
\* them, and nothing is raised or printed.
C29_HclNeverMixed ==
    (parsed.op = "process_file" /\ parsed.parser = "HCLParser") =>
        LET tokens == parsed.doc.tokens
            content == SampleContent(parsed.name)
        IN  /\ \/ \A i \in 1..Len(tokens) : tokens[i].token_type = "value"
               \/ \A i \in 1..Len(tokens) : tokens[i].token_type = "quoted_string"
            /\ (~HAS_HCL \/ HclLibraryFailed) =>
                    tokens = HCLParser_fallback_parse(parsed.name, content.text)
            /\ (HAS_HCL /\ ~HclLibraryFailed) =>
                    /\ \A i \in 1..Len(tokens) : tokens[i].token_type = "value"
                    /\ tokens = HCLParser_extract_literals(parsed.name, content.data, 1)
            /\ ~Raises(tokens)
            /\ parsed.stdout = <<>>

\* a Terraform file whose extraction fails after a VALUE token was collected:
\* its tokens are the two of the fallback
C29_Witness ==
    /\ parsed.op = "process_file"
    /\ parsed.name = "deep.tf"
    /\ HAS_HCL
    /\ HclLibraryFailed
    /\ Len(BeforeRaise(HCLParser_extract_literals("deep.tf",
                                                  SampleContent("deep.tf").data, 1))) = 1
    /\ Len(parsed.doc.tokens) = 2
    /\ parsed.doc.tokens[1].token_type = "quoted_string"

\* the allow-list of a run: the keys of the registry and --include-exts
AllowList == (DOMAIN PARSER_REGISTRY) \cup args.include_exts

\* C22: the files the scan dispatches are exactly the regular files under the
\* root in whose path under the root no exclusion substring (the defaults and
\* the user's) occurs and whose extension or file name is in the allow-list;
\* and they are the files the scan of the same tree under any other root
\* dispatches.
C22_DispatchIndependentOfRoot ==
    pc = "pool" =>
        /\ SeqRange(all_files)
            = {p \in SeqRange(fs.entries) :
                /\ p \notin fs.dirs
                /\ \A pattern \in args.exclude \cup DefaultExcludes : ~Contains(p, pattern)
                /\ \/ Lower(PathSuffix(p)) \in AllowList
                   \/ Lower(PathName(p)) \in AllowList}
        /\ \A r \in Roots :
                all_files = Scan([fs EXCEPT !.root = r], args, fs.entries)

\* C28: after any sequence of runs that write the store into the same
\* directory, the documents table holds exactly the documents of the latest
\* run's graph, the relationships table exactly its relationship pairs, and
\* the tokens table exactly token_count rows for every documents row.
C28_StoreReflectsLatestRun ==
    calls >= 1 =>
        /\ DOMAIN db.documents = DOMAIN kg.documents
        /\ db.relationships = RelationshipPairs(kg.file_relationships)
        /\ \A p \in DOMAIN db.documents :
                Cardinality({i \in 1..Len(db.tokens) : db.tokens[i].file = p})
                    = db.documents[p].token_count

\* the normalization steps of the latest post_process_audio call
NormalizeSteps == SelectSeq(post.steps, LAMBDA s : s.fn # "convert_to_ogg")

\* C25: post_process_audio returns True exactly when the conversion and then
\* the normalization of the asset type (loudness for music, peak otherwise)
\* both succeeded; no normalization is attempted after a failed conversion;
\* and a target the caller gives is the target that is applied.
C25_PostProcessAsStated ==
    post.asset_type # None =>
        /\ post.returned <=> (post.convert_ok /\ post.normalize_ok)
        /\ post.steps[1].fn = "convert_to_ogg"
        /\ ~post.convert_ok => NormalizeSteps = <<>>
        /\ post.convert_ok =>
            /\ Len(NormalizeSteps) = 1
            /\ NormalizeSteps[1].fn = IF post.asset_type = "music"
                                      THEN "normalize_music_lufs"
                                      ELSE "normalize_sfx_peak"
            /\ post.normalize_target # NoNumber =>
                    NormalizeSteps[1].arg = post.normalize_target[1]

\* C24 (as stated): in a dry run no request reaches the ElevenLabs service,
\* no audio file is written and no results file is saved.
C24_DryRunExecutesNothing ==
    gen.dry_run =>
        /\ cloud.log = <<>>
        /\ disk \in ExistingOutputs
        /\ ResultsFile \notin disk

\* the requests that generate audio, as positions of the service's log
GenerationRequests ==
    {k \in DOMAIN cloud.log : cloud.log[k].request # UserInfoUrl}

CreditFetches ==
    {k \in DOMAIN cloud.log : cloud.log[k].request = UserInfoUrl}

AssetById(asset_id) ==
    CHOOSE asset \in {Manifest[k] : k \in DOMAIN Manifest} : asset.id = asset_id

EstimatedCostOf(asset_id) ==
    estimate_cost(AssetById(asset_id).duration_seconds,
                  GeneratedAs(AssetById(asset_id)))

\* the credit fetch j succeeded and left enough beyond the safety margin
FetchAllows(j) ==
    /\ cloud.log[j].response.status = "ok"
    /\ cloud.log[j].response.remaining - gen.safety_margin
            >= EstimatedCostOf(cloud.log[j].asset_id)

\* C23: a generation request for an asset is sent only after check_budget
\* returned can_proceed = True for that asset, which it does only when the
\* credit fetch succeeded and remaining_credits - safety_margin >=
\* estimated_cost; when the fetch fails with a RequestException check_budget
\* returns (False, message, 0, 0) and no generation request is sent for the
\* asset.
C23_GenerationOnlyWithinBudget ==
    /\ [](/\ \A k \in GenerationRequests :
                \E j \in CreditFetches :
                    /\ j < k
                    /\ cloud.log[j].asset_id = cloud.log[k].asset_id
                    /\ FetchAllows(j)
          /\ \A j \in CreditFetches :
                /\ cloud.log[j].response.status = "RequestException" =>
                    /\ \A k \in GenerationRequests :
                            cloud.log[k].asset_id # cloud.log[j].asset_id
                    /\ gen.check.asset_id = cloud.log[j].asset_id =>
                            gen.check =
                                [asset_id |-> cloud.log[j].asset_id,
                                 can_proceed |-> FALSE, message |-> "failed",
                                 remaining_credits |-> 0,
                                 estimated_cost |-> 0]
                /\ (/\ gen.check.asset_id = cloud.log[j].asset_id
                    /\ gen.check.can_proceed) => FetchAllows(j))
    /\ [][\A k \in DOMAIN cloud'.log \ DOMAIN cloud.log :
            cloud'.log[k].request # UserInfoUrl =>
                /\ gen.check.can_proceed
                /\ gen.check.asset_id = cloud'.log[k].asset_id
                /\ ~gen.dry_run]_vars

\* a run in which one asset was generated after a passing check and another
\* was refused because the credit fetch failed
C23_Witness ==
    /\ \E k \in GenerationRequests :
            cloud.log[k].request = "music.compose" /\ cloud.log[k].response = "ok"
    /\ \E j \in CreditFetches :
            /\ cloud.log[j].response.status = "RequestException"
            /\ gen.check.asset_id = cloud.log[j].asset_id
            /\ ~gen.check.can_proceed

RECURSIVE SuccessfulCost(_)
SuccessfulCost(assets) ==
    IF assets = <<>> THEN 0
    ELSE (IF Head(assets).success THEN EstimatedCostOf(Head(assets).id) ELSE 0)
         + SuccessfulCost(Tail(assets))

\* C30: when generate_assets has returned, total_attempted = total_successful
\* + total_failed + total_skipped, the assets list has one entry for each
\* attempted asset that was not skipped, and total_credits_used is the sum of
\* the estimated costs of the assets recorded as successful outside a dry run
\* (nothing in a dry run); an asset whose output file exists is counted as
\* skipped with no budget check and no request to the service.
C30_ResultsAccounting ==
    /\ [](pc = "returned" =>
            LET r == gen.results
            IN  /\ r.total_attempted
                    = r.total_successful + r.total_failed + r.total_skipped
                /\ r.total_attempted = Len(gen.assets_to_generate)
                /\ Len(r.assets) = r.total_attempted - r.total_skipped
                /\ r.total_successful
                    = Len(SelectSeq(r.assets, LAMBDA a : a.success))
                /\ r.total_credits_used
                    = IF gen.dry_run THEN 0 ELSE SuccessfulCost(r.assets))
    /\ [][(/\ pc = "loop"
           /\ gen.done < Len(gen.assets_to_generate)
           /\ CurrentAsset.output_path \in disk) =>
                /\ gen'.results.total_skipped = gen.results.total_skipped + 1
                /\ gen'.results.total_attempted
                        = gen.results.total_attempted + 1
                /\ gen'.results.assets = gen.results.assets
                /\ gen'.check = gen.check
                /\ cloud' = cloud]_vars

\* a finished run outside dry-run mode with a skipped, a successful and a
\* failed asset
C30_Witness ==
    /\ pc = "returned"
    /\ ~gen.dry_run
    /\ gen.results.total_skipped > 0
    /\ gen.results.total_successful > 0
    /\ gen.results.total_failed > 0
    /\ gen.results.total_credits_used > 0

====
